---- MODULE Spec2Model ----
(***************************************************************************)
(* Model of the invoice extraction core:                                   *)
(*   - PDFAnalyzer        (src/src/services/pdf_analyzer.py)               *)
(*   - BBoxTableParser    (src/src/services/layout_parser/table_parser.py) *)
(*   - OCRNormalizer      (src/src/services/ocr_normalizer.py)             *)
(*                                                                         *)
(* Strings are modelled structurally.  A text block is a run-length        *)
(* encoded sequence of character classes, <<[c |-> class, n |-> length]>>, *)
(* so that strip(), len(), count() and the per-category scans of the code  *)
(* are computed as the code computes them while 100-character texts stay   *)
(* small.  Python floats that are quotients of small integers are kept as  *)
(* exact fractions [num, den]; every threshold comparison of the code is   *)
(* done by cross-multiplication (for these magnitudes the correctly        *)
(* rounded quotient compares with the rounded literal exactly as the       *)
(* rationals do).                                                          *)
(***************************************************************************)
EXTENDS Integers, Sequences, FiniteSets, TLC

VARIABLES
    pdf,              \* analyze(): the file handed in: [exists, pages]
    pc,               \* analyze(): position in the method
    page_analyses,    \* analyze(): list of PageAnalysis built by the loop
    total_words,      \* analyze(): running sum of word_count
    total_images,     \* analyze(): running sum of image_count
    pdf_type,         \* analyze(): result of _determine_pdf_type
    confidence,       \* analyze(): result of _calculate_confidence
    page_type_counts, \* analyze(): {'text','image','broken'} counts
    analysis,         \* analyze(): returned PDFAnalysis (or NoAnalysis)
    exc,              \* exception that left analyze(), "none" if none
    tokens,           \* parse(): the caller's token list
    page_width,       \* parse(): the page width handed in
    tpc,              \* parse(): position in the method
    rows,             \* parse(): rows returned by _group_rows
    row_index,        \* parse(): number of rows the loop has handled
    items,            \* parse(): the items list being built
    cols,             \* _parse_row(): the column buckets of the last row handled
    texc,             \* exception that left parse(), "none" if none
    tcalls,           \* number of parse() calls that returned
    ntext,            \* normalize(): the text handed in
    npc,              \* normalize(): position in the method
    nlines,           \* normalize(): lines after _merge_broken_lines
    nwords,           \* normalize(): words handed to _majority_vote
    canonical,        \* _majority_vote(): the canonical dict
    nkey,             \* _majority_vote(): position of "for w in counter"
    nvoted,           \* normalize(): the words _majority_vote returned
    nresult,          \* normalize(): the returned text
    ncalls            \* number of normalize() calls that returned

avars == <<pdf, pc, page_analyses, total_words, total_images, pdf_type,
           confidence, page_type_counts, analysis, exc>>

tvars == <<tokens, page_width, tpc, rows, row_index, items, cols, texc, tcalls>>

nvars == <<ntext, npc, nlines, nwords, canonical, nkey, nvoted, nresult, ncalls>>

vars == <<pdf, pc, page_analyses, total_words, total_images, pdf_type,
          confidence, page_type_counts, analysis, exc,
          tokens, page_width, tpc, rows, row_index, items, cols, texc, tcalls,
          ntext, npc, nlines, nwords, canonical, nkey, nvoted, nresult, ncalls>>

(***************************************************************************)
(* Generic helpers                                                         *)
(***************************************************************************)
RECURSIVE SeqSum(_)
SeqSum(s) ==
    IF s = <<>> THEN 0 ELSE Head(s) + SeqSum(Tail(s))

Max(a, b) == IF a >= b THEN a ELSE b

\* a fraction num/den standing for the Python float num/den
Frac(a, b) == [num |-> a, den |-> b]
Zero == Frac(0, 1)

\* comparisons of the float f with the literal k/100
GePct(f, k) == f.num * 100 >= k * f.den
GtPct(f, k) == f.num * 100 > k * f.den
LtPct(f, k) == f.num * 100 < k * f.den

(***************************************************************************)
(* Text blocks: run-length encoded character classes                       *)
(*   "L" letter (a category L.. char)  "N" digit/punctuation (neither)     *)
(*   "R" U+FFFD replacement char     "C" control char (Cc), not whitespace *)
(*   "F" format char (Cf)            "S" one of "\n", "\r", "\t", " "      *)
(*   "V" whitespace of category Cc other than \n \r \t (e.g. \x0b, \x1c)   *)
(***************************************************************************)
CharClasses == {"L", "N", "R", "C", "F", "S", "V"}

\* str.isspace() on one character
IsSpace(c) == c \in {"S", "V"}

RECURSIVE LStrip(_)
LStrip(t) ==
    IF t = <<>> THEN <<>>
    ELSE IF IsSpace(Head(t).c) THEN LStrip(Tail(t)) ELSE t

RECURSIVE RStrip(_)
RStrip(t) ==
    IF t = <<>> THEN <<>>
    ELSE IF IsSpace(t[Len(t)].c) THEN RStrip(SubSeq(t, 1, Len(t) - 1)) ELSE t

\* str.strip()
Strip(t) == RStrip(LStrip(t))

\* len(str)
StrLen(t) == SeqSum([i \in DOMAIN t |-> t[i].n])

\* number of characters of t whose class is in classes
CountIn(t, classes) ==
    SeqSum([i \in DOMAIN t |-> IF t[i].c \in classes THEN t[i].n ELSE 0])

\* sum(1 for c in t if not c.isspace())
NonSpaceCount(t) == CountIn(t, CharClasses \ {"S", "V"})

(***************************************************************************)
(* Word lists: run-length encoded, <<[w |-> word, n |-> repetitions]>>     *)
(***************************************************************************)
\* len(list)
ListLen(ws) == SeqSum([i \in DOMAIN ws |-> ws[i].n])

\* [w for w in raw_words if len(w) >= MIN_CHARS_FOR_VALID_WORD]
MIN_CHARS_FOR_VALID_WORD == 2

ValidWords(ws) ==
    SelectSeq(ws, LAMBDA r : StrLen(r.w) >= MIN_CHARS_FOR_VALID_WORD)

\* sum(1 for w in raw_words if len(w.strip()) == 1)
SingleChars(ws) ==
    SeqSum([i \in DOMAIN ws |-> IF StrLen(Strip(ws[i].w)) = 1 THEN ws[i].n ELSE 0])

(***************************************************************************)
(* PDFAnalyzer thresholds (ratios in hundredths)                           *)
(***************************************************************************)
MIN_WORDS_FOR_TEXT == 5
MIN_LETTER_RATIO_FOR_TEXT == 40
MIN_CHARS_FOR_TEXT == 80
REPLACEMENT_HARD == 5
REPLACEMENT_SOFT == 1
CONTROL_CHAR_THRESHOLD == 2
FORMAT_CHAR_THRESHOLD == 5
SINGLE_CHAR_THRESHOLD == 70
LETTER_RATIO_VERY_LOW == 20
LETTER_RATIO_LOW == 30
FEW_WORDS == 5
CHAR_WORD_MISMATCH_CHARS == 100
SOFT_SIGNAL_WORDS == 10
COVERAGE_FALLBACK == 50

Garbled(tag) == [is_garbled |-> TRUE, reasons |-> <<tag>>]

\* mutant of GarbledTail: the letter ratio is tested before the
\* single-character tokens
GarbledTail_LetterRatioFirst(reasons, raw_words, char_count, word_count, letter_ratio) ==
    LET single_ratio == Frac(SingleChars(raw_words), Max(ListLen(raw_words), 1))
        HasFlag(f)   == \E i \in DOMAIN reasons : reasons[i] = f
    IN  IF LtPct(letter_ratio, LETTER_RATIO_VERY_LOW)
            THEN Garbled("letter_ratio_very_low")
        ELSE IF GtPct(single_ratio, SINGLE_CHAR_THRESHOLD)
            THEN Garbled("single_char_tokens_high")
        ELSE IF LtPct(letter_ratio, LETTER_RATIO_LOW) /\ word_count < FEW_WORDS
            THEN Garbled("letter_ratio_low_and_few_words")
        ELSE IF char_count > CHAR_WORD_MISMATCH_CHARS /\ word_count < FEW_WORDS
            THEN Garbled("char_word_mismatch")
        ELSE IF HasFlag("replacement_soft") /\ word_count < SOFT_SIGNAL_WORDS
            THEN Garbled("replacement_soft_plus_low_words")
        ELSE IF HasFlag("format_chars_suspicious") /\ word_count < SOFT_SIGNAL_WORDS
            THEN Garbled("format_chars_plus_low_words")
        ELSE [is_garbled |-> FALSE, reasons |-> reasons]

\* the checks of _is_text_garbled that follow the replacement and control /
\* format scans; reasons holds the soft flags raised so far
GarbledTail(reasons, raw_words, char_count, word_count, letter_ratio) ==
    LET single_ratio == Frac(SingleChars(raw_words), Max(ListLen(raw_words), 1))
        HasFlag(f)   == \E i \in DOMAIN reasons : reasons[i] = f
    IN  IF GtPct(single_ratio, SINGLE_CHAR_THRESHOLD)
            THEN Garbled("single_char_tokens_high")
        ELSE IF LtPct(letter_ratio, LETTER_RATIO_VERY_LOW)
            THEN Garbled("letter_ratio_very_low")
        ELSE IF LtPct(letter_ratio, LETTER_RATIO_LOW) /\ word_count < FEW_WORDS
            THEN Garbled("letter_ratio_low_and_few_words")
        ELSE IF char_count > CHAR_WORD_MISMATCH_CHARS /\ word_count < FEW_WORDS
            THEN Garbled("char_word_mismatch")
        ELSE IF HasFlag("replacement_soft") /\ word_count < SOFT_SIGNAL_WORDS
            THEN Garbled("replacement_soft_plus_low_words")
        ELSE IF HasFlag("format_chars_suspicious") /\ word_count < SOFT_SIGNAL_WORDS
            THEN Garbled("format_chars_plus_low_words")
        ELSE [is_garbled |-> FALSE, reasons |-> reasons]

\* PDFAnalyzer._is_text_garbled, from the non-empty stripped text t on
GarbledNonEmpty(t, raw_words, char_count, word_count, letter_ratio) ==
    LET n          == Max(NonSpaceCount(t), 1)
        repl_ratio == Frac(CountIn(t, {"R"}), n)
        cc_ratio   == Frac(CountIn(t, {"C", "V"}), n)
        cf_ratio   == Frac(CountIn(t, {"F"}), n)
        soft1      == IF GePct(repl_ratio, REPLACEMENT_SOFT)
                          THEN <<"replacement_soft">> ELSE <<>>
        soft2      == IF GtPct(cf_ratio, FORMAT_CHAR_THRESHOLD)
                          THEN soft1 \o <<"format_chars_suspicious">> ELSE soft1
    IN  IF GePct(repl_ratio, REPLACEMENT_HARD)
            THEN Garbled("replacement_hard")
        ELSE IF GtPct(cc_ratio, CONTROL_CHAR_THRESHOLD)
            THEN Garbled("control_chars_high")
        ELSE GarbledTail(soft2, raw_words, char_count, word_count, letter_ratio)

\* mutant of IsTextGarbled: the empty-text short-circuit is missing
IsTextGarbled_NoShortCircuit(text, raw_words, valid_words, char_count, word_count, letter_ratio) ==
    GarbledNonEmpty(Strip(text), raw_words, char_count, word_count, letter_ratio)

\* PDFAnalyzer._is_text_garbled
IsTextGarbled(text, raw_words, valid_words, char_count, word_count, letter_ratio) ==
    LET t == Strip(text)
    IN  IF t = <<>>
            THEN [is_garbled |-> FALSE, reasons |-> <<>>]
            ELSE GarbledNonEmpty(t, raw_words, char_count, word_count, letter_ratio)

\* mutant of ClassifyPage: images are looked at before the text
ClassifyPage_ImagesFirst(has_text, has_images, is_garbled) ==
    IF has_images THEN "image"
    ELSE IF has_text /\ ~is_garbled THEN "text"
    ELSE "broken"

\* PDFAnalyzer._classify_page
ClassifyPage(has_text, has_images, is_garbled) ==
    IF has_text /\ ~is_garbled THEN "text"
    ELSE IF ~has_text /\ has_images THEN "image"
    ELSE "broken"

\* one image of get_images(): get_image_rects either raises or yields rects
\* [raises |-> BOOLEAN, rects |-> <<[w, h], ...>>]
ImageArea(img) ==
    IF img.raises THEN 0
    ELSE SeqSum([i \in DOMAIN img.rects |-> img.rects[i].w * img.rects[i].h])

\* mutant of CalculateImageCoverage: the quotient is not capped at 1.0
CalculateImageCoverage_NoCap(rect, image_list) ==
    IF image_list = <<>> THEN Zero
    ELSE LET page_area        == rect.w * rect.h
             total_image_area == SeqSum([i \in DOMAIN image_list |-> ImageArea(image_list[i])])
         IN  IF page_area = 0
                 THEN Frac(COVERAGE_FALLBACK, 100)
             ELSE Frac(total_image_area, page_area)

\* PDFAnalyzer._calculate_image_coverage
CalculateImageCoverage(rect, image_list) ==
    IF image_list = <<>> THEN Zero
    ELSE LET page_area        == rect.w * rect.h
             total_image_area == SeqSum([i \in DOMAIN image_list |-> ImageArea(image_list[i])])
         IN  IF page_area = 0
                 THEN Frac(COVERAGE_FALLBACK, 100)   \* ZeroDivisionError caught
             ELSE IF total_image_area >= page_area THEN Frac(1, 1)
             ELSE Frac(total_image_area, page_area)

\* the text block _analyze_page works on: extraction is skipped for a page
\* with no valid word and at least one image
ExtractedText(page) ==
    IF ListLen(ValidWords(page.words)) = 0 /\ Len(page.images) > 0
        THEN <<>> ELSE page.text

\* mutant of HasText: the character and letter test is needed as well as
\* the word count
HasText_WordsAndChars(word_count, char_count, letter_ratio) ==
    /\ word_count >= MIN_WORDS_FOR_TEXT
    /\ char_count >= MIN_CHARS_FOR_TEXT
    /\ GePct(letter_ratio, MIN_LETTER_RATIO_FOR_TEXT)

\* _analyze_page: has_text
HasText(word_count, char_count, letter_ratio) ==
    \/ word_count >= MIN_WORDS_FOR_TEXT
    \/ /\ char_count >= MIN_CHARS_FOR_TEXT
       /\ GePct(letter_ratio, MIN_LETTER_RATIO_FOR_TEXT)

\* PDFAnalyzer._analyze_page
AnalyzePageFn(page, page_number) ==
    LET raw_words    == page.words
        valid_words  == ValidWords(raw_words)
        word_count   == ListLen(valid_words)
        image_count  == Len(page.images)
        has_images   == image_count > 0
        skip         == word_count = 0 /\ has_images
        text         == IF skip THEN <<>> ELSE page.text
        stripped     == Strip(text)
        char_count   == IF skip THEN 0 ELSE StrLen(stripped)
        letter_ratio == IF skip THEN Zero
                        ELSE Frac(CountIn(stripped, {"L"}), Max(NonSpaceCount(stripped), 1))
        has_text     == HasText(word_count, char_count, letter_ratio)
        g            == IsTextGarbled(text, raw_words, valid_words, char_count,
                                      word_count, letter_ratio)
    IN  [page_number     |-> page_number,
         page_type       |-> ClassifyPage(has_text, has_images, g.is_garbled),
         has_text        |-> has_text,
         has_images      |-> has_images,
         word_count      |-> word_count,
         char_count      |-> char_count,
         image_count     |-> image_count,
         is_garbled      |-> g.is_garbled,
         garbled_reasons |-> g.reasons,
         image_coverage  |-> CalculateImageCoverage(page.rect, page.images),
         letter_ratio    |-> letter_ratio]

\* sum(1 for p in pages if p.page_type == ty)
CountType(pages, ty) ==
    Len(SelectSeq(pages, LAMBDA p : p.page_type = ty))

\* mutant of DeterminePdfType: broken pages are never counted, only the
\* empty document is broken
DeterminePdfType_BrokenIgnored(pages) ==
    LET text_pages   == CountType(pages, "text")
        image_pages  == CountType(pages, "image")
        total        == Len(pages)
    IN  IF pages = <<>> THEN "broken"
        ELSE IF 2 * text_pages >= total THEN "text"
        ELSE IF 2 * image_pages >= total THEN "image"
        ELSE IF text_pages > image_pages THEN "text"
        ELSE "image"

\* mutant of DeterminePdfType: half of the pages broken already counts as a
\* broken majority
DeterminePdfType_HalfBroken(pages) ==
    LET text_pages   == CountType(pages, "text")
        image_pages  == CountType(pages, "image")
        broken_pages == CountType(pages, "broken")
        total        == Len(pages)
    IN  IF pages = <<>> THEN "broken"
        ELSE IF broken_pages = total THEN "broken"
        ELSE IF 2 * broken_pages >= total THEN "broken"
        ELSE IF 2 * text_pages >= total THEN "text"
        ELSE IF 2 * image_pages >= total THEN "image"
        ELSE IF text_pages > image_pages THEN "text"
        ELSE "image"

\* mutant of DeterminePdfType: a tie in the mixed case goes to text
DeterminePdfType_TieText(pages) ==
    LET text_pages   == CountType(pages, "text")
        image_pages  == CountType(pages, "image")
        broken_pages == CountType(pages, "broken")
        total        == Len(pages)
    IN  IF pages = <<>> THEN "broken"
        ELSE IF broken_pages = total THEN "broken"
        ELSE IF 2 * broken_pages > total THEN "broken"
        ELSE IF 2 * text_pages >= total THEN "text"
        ELSE IF 2 * image_pages >= total THEN "image"
        ELSE IF text_pages >= image_pages THEN "text"
        ELSE "image"

\* mutant of DeterminePdfType: text needs a strict majority
DeterminePdfType_StrictText(pages) ==
    LET text_pages   == CountType(pages, "text")
        image_pages  == CountType(pages, "image")
        broken_pages == CountType(pages, "broken")
        total        == Len(pages)
    IN  IF pages = <<>> THEN "broken"
        ELSE IF broken_pages = total THEN "broken"
        ELSE IF 2 * broken_pages > total THEN "broken"
        ELSE IF 2 * text_pages > total THEN "text"
        ELSE IF 2 * image_pages >= total THEN "image"
        ELSE IF text_pages > image_pages THEN "text"
        ELSE "image"

\* PDFAnalyzer._determine_pdf_type
DeterminePdfType(pages) ==
    LET text_pages   == CountType(pages, "text")
        image_pages  == CountType(pages, "image")
        broken_pages == CountType(pages, "broken")
        total        == Len(pages)
    IN  IF pages = <<>> THEN "broken"
        ELSE IF broken_pages = total THEN "broken"
        ELSE IF 2 * broken_pages > total THEN "broken"
        ELSE IF 2 * text_pages >= total THEN "text"
        ELSE IF 2 * image_pages >= total THEN "image"
        ELSE IF text_pages > image_pages THEN "text"
        ELSE "image"

\* mutant of CalculateConfidence: no special case for a broken document
CalculateConfidence_NoBrokenCase(pages, ty) ==
    Frac(CountType(pages, ty), Max(Len(pages), 1))

\* PDFAnalyzer._calculate_confidence
CalculateConfidence(pages, ty) ==
    IF ty = "broken" THEN Zero
    ELSE Frac(CountType(pages, ty), Len(pages))

\* the page_type_counts dict built in analyze()
PageTypeCounts(pages) ==
    [text   |-> CountType(pages, "text"),
     image  |-> CountType(pages, "image"),
     broken |-> CountType(pages, "broken")]

\* PDFAnalyzer._build_details; the averages divide by len(pages), so the
\* call raises ZeroDivisionError on an empty list (avg_letter_ratio, a third
\* quotient by len(pages), is left out of the record)
BuildDetailsRaises(pages) == Len(pages) = 0

BuildDetails(pages, ty) ==
    [page_types    |-> [i \in DOMAIN pages |-> pages[i].page_type],
     content_stats |->
        [avg_words_per_page  |-> Frac(SeqSum([i \in DOMAIN pages |-> pages[i].word_count]), Len(pages)),
         avg_images_per_page |-> Frac(SeqSum([i \in DOMAIN pages |-> pages[i].image_count]), Len(pages)),
         total_words         |-> SeqSum([i \in DOMAIN pages |-> pages[i].word_count]),
         total_images        |-> SeqSum([i \in DOMAIN pages |-> pages[i].image_count])],
     garbled_pages |-> {i \in DOMAIN pages : pages[i].garbled_reasons # <<>>}]

(***************************************************************************)
(* Inputs: the PDFs handed to analyze()                                    *)
(***************************************************************************)
MaxRepl == 4      \* replacement characters in a sampled text: 0..MaxRepl
MaxCtl == 2       \* control characters in a sampled text: 0..MaxCtl
MaxPages == 3     \* pages of a document built freely from the sample pages
MaxBlock == 10    \* pages of a document made of blocks of like pages

Run(c, n) == IF n = 0 THEN <<>> ELSE <<[c |-> c, n |-> n]>>

\* a word of k letters
Word(k) == <<[c |-> "L", n |-> k]>>

\* a word list: `singles` one-letter words, then `valids` three-letter words
Words(singles, valids) ==
    (IF singles = 0 THEN <<>> ELSE <<[w |-> Word(1), n |-> singles]>>)
    \o (IF valids = 0 THEN <<>> ELSE <<[w |-> Word(3), n |-> valids]>>)

\* " " l letters " " d digits, r U+FFFD, c control, f format chars " "
MkText(l, d, r, c, f) ==
    Run("S", 1) \o Run("L", l)
    \o (IF l > 0 /\ d + r + c + f > 0 THEN Run("S", 1) ELSE <<>>)
    \o Run("N", d) \o Run("R", r) \o Run("C", c) \o Run("F", f) \o Run("S", 1)

Rect(w, h) == [w |-> w, h |-> h]
Image(rects) == [raises |-> FALSE, rects |-> rects]
BadImage == [raises |-> TRUE, rects |-> <<>>]

A4 == Rect(100, 140)

Page(words, text, geom) ==
    [words |-> words, text |-> text, rect |-> geom.rect, images |-> geom.images]

NoImages == [rect |-> A4, images |-> <<>>]
OneImage == [rect |-> A4, images |-> <<Image(<<Rect(50, 70)>>)>>]

RichPages ==
    LET Texts ==
            { MkText(l, d, r, c, f) :
                l \in {0, 19, 38, 76, 95}, d \in {0, 3, 60}, r \in 0..MaxRepl,
                c \in 0..MaxCtl, f \in {0, 5} }
            \cup { <<>>,
                   Run("L", 40) \o Run("V", 1) \o Run("L", 40),
                   Run("L", 5) \o Run("V", 2) \o Run("L", 5) }
        WordLists ==
            { Words(sv[1], sv[2]) :
                sv \in { <<0, 0>>, <<3, 0>>, <<8, 2>>, <<7, 3>>,
                         <<0, 4>>, <<0, 5>>, <<0, 9>>, <<0, 10>> } }
        \* [rect, images] of a page
        Geoms ==
            { [rect |-> A4, images |-> <<>>],
              [rect |-> A4, images |-> <<Image(<<Rect(50, 70)>>)>>],
              [rect |-> A4, images |-> <<Image(<<Rect(100, 100), Rect(100, 100)>>)>>],
              [rect |-> A4, images |-> <<BadImage, Image(<<Rect(10, 10)>>)>>],
              [rect |-> A4, images |-> <<BadImage>>],
              [rect |-> Rect(0, 0), images |-> <<Image(<<Rect(10, 10)>>)>>],
              [rect |-> Rect(0, 0), images |-> <<>>] }
    IN  { Page(w, t, g) : w \in WordLists, t \in Texts, g \in {NoImages, OneImage} }
        \cup { Page(w, t, g) : w \in {Words(0, 0), Words(0, 5)},
                               t \in {<<>>, MkText(76, 3, 0, 0, 0)}, g \in Geoms }

\* one sample page of each kind
PText == Page(Words(0, 5), MkText(76, 3, 0, 0, 0), NoImages)
PImage == Page(Words(0, 0), <<>>, OneImage)
PBroken == Page(Words(0, 0), <<>>, NoImages)
PGarbled == Page(Words(0, 2), MkText(0, 3, 0, 0, 0), OneImage)

SamplePages == {PText, PImage, PBroken, PGarbled}

Rep(x, k) == [i \in 1..k |-> x]

RECURSIVE SeqsUpTo(_, _)
SeqsUpTo(S, k) ==
    IF k = 0 THEN {<<>>}
    ELSE LET shorter == SeqsUpTo(S, k - 1)
         IN  shorter \cup { Append(q, x) : q \in {r \in shorter : Len(r) = k - 1}, x \in S }

Pdfs ==
    LET BlockDocs ==
            { Rep(PText, t) \o Rep(PImage, i) \o Rep(PBroken, b) :
                <<t, i, b>> \in { tib \in (0..MaxBlock) \X (0..MaxBlock) \X (0..MaxBlock) :
                                   tib[1] + tib[2] + tib[3] <= MaxBlock } }
        Documents ==
            SeqsUpTo(SamplePages, MaxPages) \cup BlockDocs \cup { <<p>> : p \in RichPages }
    IN  { [exists |-> TRUE, pages |-> d] : d \in Documents }
        \cup { [exists |-> FALSE, pages |-> <<>>] }

(***************************************************************************)
(* PDFAnalyzer.analyze as a state machine                                  *)
(***************************************************************************)
NoAnalysis == [returned |-> FALSE]

\* the column buckets before any token was placed
NoCols == [desc |-> <<>>, qty |-> <<>>, unit |-> <<>>, total |-> <<>>]

\* the normalizer is not running
NormalizerIdle ==
    /\ ntext = <<>>
    /\ npc = "idle"
    /\ nlines = <<>>
    /\ nwords = <<>>
    /\ canonical = <<>>
    /\ nkey = 1
    /\ nvoted = <<>>
    /\ nresult = <<>>
    /\ ncalls = 0

Init ==
    /\ pdf \in Pdfs
    /\ pc = "open"
    /\ page_analyses = <<>>
    /\ total_words = 0
    /\ total_images = 0
    /\ pdf_type = "none"
    /\ confidence = Zero
    /\ page_type_counts = [text |-> 0, image |-> 0, broken |-> 0]
    /\ analysis = NoAnalysis
    /\ exc = "none"
    /\ tokens = <<>>
    /\ page_width = 0
    /\ tpc = "idle"
    /\ rows = <<>>
    /\ row_index = 0
    /\ items = <<>>
    /\ cols = NoCols
    /\ texc = "none"
    /\ tcalls = 0
    /\ NormalizerIdle

\* analyze(): the existence check and fitz.open
Open ==
    /\ pc = "open"
    /\ IF pdf.exists
           THEN pc' = "loop" /\ exc' = exc
           ELSE pc' = "raised" /\ exc' = "FileNotFoundError"
    /\ UNCHANGED <<pdf, page_analyses, total_words, total_images, pdf_type,
                   confidence, page_type_counts, analysis>>
    /\ UNCHANGED tvars
    /\ UNCHANGED nvars

\* analyze(): one iteration of the loop over the pages
AnalyzePage ==
    /\ pc = "loop"
    /\ Len(page_analyses) < Len(pdf.pages)
    /\ LET page_num      == Len(page_analyses)
           page_analysis == AnalyzePageFn(pdf.pages[page_num + 1], page_num + 1)
       IN  /\ page_analyses' = Append(page_analyses, page_analysis)
           /\ total_words' = total_words + page_analysis.word_count
           /\ total_images' = total_images + page_analysis.image_count
    /\ UNCHANGED <<pdf, pc, pdf_type, confidence, page_type_counts, analysis, exc>>
    /\ UNCHANGED tvars
    /\ UNCHANGED nvars

\* analyze(): the loop is over; pdf_type = self._determine_pdf_type(...)
DetermineType ==
    /\ pc = "loop"
    /\ Len(page_analyses) = Len(pdf.pages)
    /\ pdf_type' = DeterminePdfType(page_analyses)
    /\ pc' = "confidence"
    /\ UNCHANGED <<pdf, page_analyses, total_words, total_images, confidence,
                   page_type_counts, analysis, exc>>
    /\ UNCHANGED tvars
    /\ UNCHANGED nvars

\* analyze(): confidence = self._calculate_confidence(...)
Confidence ==
    /\ pc = "confidence"
    /\ confidence' = CalculateConfidence(page_analyses, pdf_type)
    /\ pc' = "counts"
    /\ UNCHANGED <<pdf, page_analyses, total_words, total_images, pdf_type,
                   page_type_counts, analysis, exc>>
    /\ UNCHANGED tvars
    /\ UNCHANGED nvars

\* analyze(): the page_type_counts dict
CountTypes ==
    /\ pc = "counts"
    /\ page_type_counts' = PageTypeCounts(page_analyses)
    /\ pc' = "details"
    /\ UNCHANGED <<pdf, page_analyses, total_words, total_images, pdf_type,
                   confidence, analysis, exc>>
    /\ UNCHANGED tvars
    /\ UNCHANGED nvars

\* analyze(): details = self._build_details(...), then the PDFAnalysis is
\* built and returned
Details ==
    /\ pc = "details"
    /\ IF BuildDetailsRaises(page_analyses)
           THEN /\ pc' = "raised"
                /\ exc' = "ZeroDivisionError"
                /\ analysis' = analysis
           ELSE /\ pc' = "done"
                /\ exc' = exc
                /\ analysis' = [returned         |-> TRUE,
                                pdf_type         |-> pdf_type,
                                page_count       |-> Len(page_analyses),
                                pages            |-> page_analyses,
                                total_words      |-> total_words,
                                total_images     |-> total_images,
                                confidence       |-> confidence,
                                page_type_counts |-> page_type_counts,
                                analysis_details |-> BuildDetails(page_analyses, pdf_type)]
    /\ UNCHANGED <<pdf, page_analyses, total_words, total_images, pdf_type,
                   confidence, page_type_counts>>
    /\ UNCHANGED tvars
    /\ UNCHANGED nvars

Next ==
    \/ Open
    \/ AnalyzePage
    \/ DetermineType
    \/ Confidence
    \/ CountTypes
    \/ Details

Spec == Init /\ [][Next]_vars

(***************************************************************************)
(* Properties of the page and document classifier                          *)
(***************************************************************************)
\* indices of the analysed pages of type ty
PagesOfType(ty) == {i \in DOMAIN page_analyses : page_analyses[i].page_type = ty}
NText == Cardinality(PagesOfType("text"))
NImage == Cardinality(PagesOfType("image"))
NBroken == Cardinality(PagesOfType("broken"))
NPages == Len(page_analyses)

\* analyze() has got past the call of _determine_pdf_type
TypeDetermined == pdf_type # "none"

\* analyze() has got past the call of _calculate_confidence
ConfidenceComputed ==
    \/ pc \in {"counts", "details", "done"}
    \/ pc = "raised" /\ exc = "ZeroDivisionError"

\* the replacement-character ratio _is_text_garbled computes on text t is
\* at least 0.05
ReplacementHard(t) ==
    CountIn(Strip(t), {"R"}) * 100 >= 5 * Max(NonSpaceCount(Strip(t)), 1)

\* C1: every analysed page is Text exactly when has_text and not is_garbled,
\* otherwise Image exactly when not has_text and has_images, otherwise
\* Broken; a page with legible text and images is Text, and a page with
\* word_count 0, at least one image and empty text is Image.
C1_PageTypeRule ==
    \A i \in DOMAIN page_analyses :
        LET p    == page_analyses[i]
            good == p.has_text /\ ~p.is_garbled
            scan == ~p.has_text /\ p.has_images
        IN  /\ p.page_type \in {"text", "image", "broken"}
            /\ (p.page_type = "text") <=> good
            /\ (p.page_type = "image") <=> (~good /\ scan)
            /\ (p.page_type = "broken") <=> (~good /\ ~scan)
            /\ (good /\ p.has_images) => p.page_type = "text"
            /\ (p.word_count = 0 /\ p.image_count >= 1 /\ p.char_count = 0)
                   => p.page_type = "image"

\* C1 witness: a page with legible text and an image was classified Text,
\* and the input page really carries both
C1_Witness ==
    \E i \in DOMAIN page_analyses :
        /\ page_analyses[i].has_text
        /\ ~page_analyses[i].is_garbled
        /\ page_analyses[i].has_images
        /\ page_analyses[i].page_type = "text"
        /\ Len(pdf.pages[i].images) = 1
        /\ page_analyses[i].word_count >= 5

\* C2 (as claimed): every page whose extracted text has a replacement
\* character ratio of at least 0.05 is classified Broken, whatever its word
\* count, character count, letter ratio and image count.
C2_ReplacementHardIsBroken ==
    \A i \in DOMAIN page_analyses :
        ReplacementHard(ExtractedText(pdf.pages[i]))
            => page_analyses[i].page_type = "broken"

\* C3 (as claimed): every page judged garbled is classified Broken; no
\* PageAnalysis has is_garbled together with page_type Text or Image.
C3_GarbledIsBroken ==
    \A i \in DOMAIN page_analyses :
        page_analyses[i].is_garbled => page_analyses[i].page_type = "broken"

\* C4: over a non-empty page sequence the document type follows the rules
\* in priority order: all Broken -> Broken; more than half Broken -> Broken;
\* at least half Text -> Text; at least half Image -> Image; otherwise the
\* type (Text or Image) with more pages.  A document with exactly half of
\* its pages Broken is never Broken.
C4_DocumentTypeRule ==
    (TypeDetermined /\ NPages > 0) =>
        LET r1 == NBroken = NPages
            r2 == 2 * NBroken > NPages
            r3 == 2 * NText >= NPages
            r4 == 2 * NImage >= NPages
        IN  /\ r1 => pdf_type = "broken"
            /\ (~r1 /\ r2) => pdf_type = "broken"
            /\ (~r1 /\ ~r2 /\ r3) => pdf_type = "text"
            /\ (~r1 /\ ~r2 /\ ~r3 /\ r4) => pdf_type = "image"
            /\ (~r1 /\ ~r2 /\ ~r3 /\ ~r4 /\ NText > NImage) => pdf_type = "text"
            /\ (~r1 /\ ~r2 /\ ~r3 /\ ~r4 /\ NImage > NText) => pdf_type = "image"
            /\ (2 * NBroken = NPages) => pdf_type # "broken"

\* C4 witness: a document with exactly half of its pages Broken, the other
\* half split between Text and Image, got a type other than Broken
C4_Witness ==
    /\ TypeDetermined
    /\ NPages >= 4
    /\ 2 * NBroken = NPages
    /\ NText > 0
    /\ NImage > 0
    /\ pdf_type # "broken"

\* no page type reaches the majority the rules 1-4 ask for
NoMajority ==
    /\ NPages > 0
    /\ NBroken < NPages
    /\ 2 * NBroken <= NPages
    /\ 2 * NText < NPages
    /\ 2 * NImage < NPages

\* C5 (as claimed): with no majority and as many Text as Image pages the
\* document is classified Text.
C5_TieIsText ==
    (TypeDetermined /\ NoMajority /\ NText = NImage) => pdf_type = "text"

\* C5 (amended): with no majority and as many Text as Image pages the
\* document is classified Image.
C5_TieIsImage ==
    (TypeDetermined /\ NoMajority /\ NText = NImage) => pdf_type = "image"

\* C5 witness: 1 Text, 1 Image, 1 Broken page, type determined
C5_Witness ==
    /\ TypeDetermined
    /\ NText = 1
    /\ NImage = 1
    /\ NBroken = 1
    /\ pdf_type = "image"

\* C6: confidence is exactly 0.0 when pdf_type is Broken (also when every
\* page is Broken), otherwise the number of pages of type pdf_type divided
\* by the page count; it lies in [0, 1].
C6_ConfidenceRule ==
    ConfidenceComputed =>
        /\ confidence.den > 0
        /\ 0 <= confidence.num
        /\ confidence.num <= confidence.den
        /\ (pdf_type = "broken") => confidence.num = 0
        /\ (pdf_type # "broken") =>
               /\ NPages > 0
               /\ confidence.num * NPages
                      = Cardinality(PagesOfType(pdf_type)) * confidence.den
        /\ (pc = "done") => analysis.confidence = confidence

\* C6 witness: every page of a several-page document is Broken and the
\* confidence computed is 0
C6_Witness ==
    /\ ConfidenceComputed
    /\ NPages >= 2
    /\ NBroken = NPages
    /\ pdf_type = "broken"
    /\ confidence.num = 0

\* C7: whenever at least half of the pages of a (non-empty) document are
\* Text, the document is Text with confidence (Text pages)/(pages),
\* whatever the split of the other pages; 6 Text, 3 Image, 1 Broken give
\* Text with confidence 0.6.
C7_HalfTextIsText ==
    (TypeDetermined /\ NPages > 0 /\ 2 * NText >= NPages) =>
        /\ pdf_type = "text"
        /\ ConfidenceComputed =>
               confidence.num * NPages = NText * confidence.den

\* C7 witness: 10 pages, 6 Text, 3 Image, 1 Broken: Text, confidence 6/10
C7_Witness ==
    /\ pc = "done"
    /\ NPages = 10
    /\ NText = 6
    /\ NImage = 3
    /\ NBroken = 1
    /\ analysis.pdf_type = "text"
    /\ analysis.confidence.num * 10 = 6 * analysis.confidence.den

\* C8 (as claimed): analysing a document with zero pages ends in a normal
\* result, Broken with confidence 0.0; no step raises.
C8_EmptyDocumentReturns ==
    (pdf.exists /\ pdf.pages = <<>>) =>
        /\ pc # "raised"
        /\ exc = "none"
        /\ (pc = "done") => /\ analysis.pdf_type = "broken"
                            /\ analysis.confidence.num = 0

\* C9: for every page whose text is empty or whitespace-only the garbled
\* check gives is_garbled = false and no garbled_reasons, whatever the
\* word list is.
C9_EmptyTextNotGarbled ==
    \A i \in DOMAIN page_analyses :
        (Strip(pdf.pages[i].text) = <<>> \/ Strip(ExtractedText(pdf.pages[i])) = <<>>)
            => /\ ~page_analyses[i].is_garbled
               /\ page_analyses[i].garbled_reasons = <<>>

\* C9 witness: a page of whitespace-only text whose words are all single
\* characters (which the later checks would call garbled) is not garbled
C9_Witness ==
    \E i \in DOMAIN page_analyses :
        /\ pdf.pages[i].text # <<>>
        /\ Strip(pdf.pages[i].text) = <<>>
        /\ pdf.pages[i].images = <<>>
        /\ SingleChars(pdf.pages[i].words) = 3
        /\ ListLen(pdf.pages[i].words) = 3
        /\ ~page_analyses[i].is_garbled
        /\ page_analyses[i].garbled_reasons = <<>>

(***************************************************************************)
(* BBoxTableParser.  A token text is a sequence of one-character strings.  *)
(* A number read from a token is the fraction [num, den] its decimal       *)
(* literal denotes; the float it is in the program is the float nearest to *)
(* that fraction.                                                          *)
(***************************************************************************)
Y_THRESHOLD == 12
DESC_LIMIT == 35
QTY_LIMIT == 50
UNIT_LIMIT == 70
CONF_CONSISTENT == 95
CONF_INCONSISTENT == 85
DEFAULT_QTY == 1

HEADER_KEYWORDS ==
    { <<"t", "a", "r", "i", "h">>, <<"v", "e", "r", "g", "i">>,
      <<"d", "a", "i", "r", "e">>, <<"s", "a", "y", "i-dotless", "n">>,
      <<"s", "e", "r", "i">>, <<"i", "r", "s", "a", "l", "i", "y", "e">>,
      <<"t", "o", "p", "l", "a", "m">>, <<"k", "d", "v">>,
      <<"g", "e", "n", "e", "l">>, <<"n", "o">>, <<"v", "d">> }

\* A character is a one-character string.  A character above U+00FF is
\* written as the string "U+" followed by its code point in four to six
\* hexadecimal digits ("U+0130"), and so is the grave accent ("U+0060");
\* "i-dotless" is U+0131 and "combining-diaeresis" is U+0308; a control
\* character, U+00A0 and U+00AD are known both as themselves and by their
\* "U+" name.

\* the characters str.lower() changes, each with the characters it becomes
\* (U+0130 becomes two; U+03A3 is the non-final form, see FinalSigma)
LowerPairs ==
    <<
      <<"A", <<"a">>>>, <<"B", <<"b">>>>, <<"C", <<"c">>>>, <<"D", <<"d">>>>,
      <<"E", <<"e">>>>, <<"F", <<"f">>>>, <<"G", <<"g">>>>, <<"H", <<"h">>>>,
      <<"I", <<"i">>>>, <<"J", <<"j">>>>, <<"K", <<"k">>>>, <<"L", <<"l">>>>,
      <<"M", <<"m">>>>, <<"N", <<"n">>>>, <<"O", <<"o">>>>, <<"P", <<"p">>>>,
      <<"Q", <<"q">>>>, <<"R", <<"r">>>>, <<"S", <<"s">>>>, <<"T", <<"t">>>>,
      <<"U", <<"u">>>>, <<"V", <<"v">>>>, <<"W", <<"w">>>>, <<"X", <<"x">>>>,
      <<"Y", <<"y">>>>, <<"Z", <<"z">>>>, <<"À", <<"à">>>>, <<"Á", <<"á">>>>,
      <<"Â", <<"â">>>>, <<"Ã", <<"ã">>>>, <<"Ä", <<"ä">>>>, <<"Å", <<"å">>>>,
      <<"Æ", <<"æ">>>>, <<"Ç", <<"ç">>>>, <<"È", <<"è">>>>, <<"É", <<"é">>>>,
      <<"Ê", <<"ê">>>>, <<"Ë", <<"ë">>>>, <<"Ì", <<"ì">>>>, <<"Í", <<"í">>>>,
      <<"Î", <<"î">>>>, <<"Ï", <<"ï">>>>, <<"Ð", <<"ð">>>>, <<"Ñ", <<"ñ">>>>,
      <<"Ò", <<"ò">>>>, <<"Ó", <<"ó">>>>, <<"Ô", <<"ô">>>>, <<"Õ", <<"õ">>>>,
      <<"Ö", <<"ö">>>>, <<"Ø", <<"ø">>>>, <<"Ù", <<"ù">>>>, <<"Ú", <<"ú">>>>,
      <<"Û", <<"û">>>>, <<"Ü", <<"ü">>>>, <<"Ý", <<"ý">>>>, <<"Þ", <<"þ">>>>,
      <<"U+0100", <<"U+0101">>>>, <<"U+0102", <<"U+0103">>>>,
      <<"U+0104", <<"U+0105">>>>, <<"U+0106", <<"U+0107">>>>,
      <<"U+0108", <<"U+0109">>>>, <<"U+010A", <<"U+010B">>>>,
      <<"U+010C", <<"U+010D">>>>, <<"U+010E", <<"U+010F">>>>,
      <<"U+0110", <<"U+0111">>>>, <<"U+0112", <<"U+0113">>>>,
      <<"U+0114", <<"U+0115">>>>, <<"U+0116", <<"U+0117">>>>,
      <<"U+0118", <<"U+0119">>>>, <<"U+011A", <<"U+011B">>>>,
      <<"U+011C", <<"U+011D">>>>, <<"U+011E", <<"U+011F">>>>,
      <<"U+0120", <<"U+0121">>>>, <<"U+0122", <<"U+0123">>>>,
      <<"U+0124", <<"U+0125">>>>, <<"U+0126", <<"U+0127">>>>,
      <<"U+0128", <<"U+0129">>>>, <<"U+012A", <<"U+012B">>>>,
      <<"U+012C", <<"U+012D">>>>, <<"U+012E", <<"U+012F">>>>,
      <<"U+0130", <<"i", "U+0307">>>>, <<"U+0132", <<"U+0133">>>>,
      <<"U+0134", <<"U+0135">>>>, <<"U+0136", <<"U+0137">>>>,
      <<"U+0139", <<"U+013A">>>>, <<"U+013B", <<"U+013C">>>>,
      <<"U+013D", <<"U+013E">>>>, <<"U+013F", <<"U+0140">>>>,
      <<"U+0141", <<"U+0142">>>>, <<"U+0143", <<"U+0144">>>>,
      <<"U+0145", <<"U+0146">>>>, <<"U+0147", <<"U+0148">>>>,
      <<"U+014A", <<"U+014B">>>>, <<"U+014C", <<"U+014D">>>>,
      <<"U+014E", <<"U+014F">>>>, <<"U+0150", <<"U+0151">>>>,
      <<"U+0152", <<"U+0153">>>>, <<"U+0154", <<"U+0155">>>>,
      <<"U+0156", <<"U+0157">>>>, <<"U+0158", <<"U+0159">>>>,
      <<"U+015A", <<"U+015B">>>>, <<"U+015C", <<"U+015D">>>>,
      <<"U+015E", <<"U+015F">>>>, <<"U+0160", <<"U+0161">>>>,
      <<"U+0162", <<"U+0163">>>>, <<"U+0164", <<"U+0165">>>>,
      <<"U+0166", <<"U+0167">>>>, <<"U+0168", <<"U+0169">>>>,
      <<"U+016A", <<"U+016B">>>>, <<"U+016C", <<"U+016D">>>>,
      <<"U+016E", <<"U+016F">>>>, <<"U+0170", <<"U+0171">>>>,
      <<"U+0172", <<"U+0173">>>>, <<"U+0174", <<"U+0175">>>>,
      <<"U+0176", <<"U+0177">>>>, <<"U+0178", <<"ÿ">>>>,
      <<"U+0179", <<"U+017A">>>>, <<"U+017B", <<"U+017C">>>>,
      <<"U+017D", <<"U+017E">>>>, <<"U+0181", <<"U+0253">>>>,
      <<"U+0182", <<"U+0183">>>>, <<"U+0184", <<"U+0185">>>>,
      <<"U+0186", <<"U+0254">>>>, <<"U+0187", <<"U+0188">>>>,
      <<"U+0189", <<"U+0256">>>>, <<"U+018A", <<"U+0257">>>>,
      <<"U+018B", <<"U+018C">>>>, <<"U+018E", <<"U+01DD">>>>,
      <<"U+018F", <<"U+0259">>>>, <<"U+0190", <<"U+025B">>>>,
      <<"U+0191", <<"U+0192">>>>, <<"U+0193", <<"U+0260">>>>,
      <<"U+0194", <<"U+0263">>>>, <<"U+0196", <<"U+0269">>>>,
      <<"U+0197", <<"U+0268">>>>, <<"U+0198", <<"U+0199">>>>,
      <<"U+019C", <<"U+026F">>>>, <<"U+019D", <<"U+0272">>>>,
      <<"U+019F", <<"U+0275">>>>, <<"U+01A0", <<"U+01A1">>>>,
      <<"U+01A2", <<"U+01A3">>>>, <<"U+01A4", <<"U+01A5">>>>,
      <<"U+01A6", <<"U+0280">>>>, <<"U+01A7", <<"U+01A8">>>>,
      <<"U+01A9", <<"U+0283">>>>, <<"U+01AC", <<"U+01AD">>>>,
      <<"U+01AE", <<"U+0288">>>>, <<"U+01AF", <<"U+01B0">>>>,
      <<"U+01B1", <<"U+028A">>>>, <<"U+01B2", <<"U+028B">>>>,
      <<"U+01B3", <<"U+01B4">>>>, <<"U+01B5", <<"U+01B6">>>>,
      <<"U+01B7", <<"U+0292">>>>, <<"U+01B8", <<"U+01B9">>>>,
      <<"U+01BC", <<"U+01BD">>>>, <<"U+01C4", <<"U+01C6">>>>,
      <<"U+01C5", <<"U+01C6">>>>, <<"U+01C7", <<"U+01C9">>>>,
      <<"U+01C8", <<"U+01C9">>>>, <<"U+01CA", <<"U+01CC">>>>,
      <<"U+01CB", <<"U+01CC">>>>, <<"U+01CD", <<"U+01CE">>>>,
      <<"U+01CF", <<"U+01D0">>>>, <<"U+01D1", <<"U+01D2">>>>,
      <<"U+01D3", <<"U+01D4">>>>, <<"U+01D5", <<"U+01D6">>>>,
      <<"U+01D7", <<"U+01D8">>>>, <<"U+01D9", <<"U+01DA">>>>,
      <<"U+01DB", <<"U+01DC">>>>, <<"U+01DE", <<"U+01DF">>>>,
      <<"U+01E0", <<"U+01E1">>>>, <<"U+01E2", <<"U+01E3">>>>,
      <<"U+01E4", <<"U+01E5">>>>, <<"U+01E6", <<"U+01E7">>>>,
      <<"U+01E8", <<"U+01E9">>>>, <<"U+01EA", <<"U+01EB">>>>,
      <<"U+01EC", <<"U+01ED">>>>, <<"U+01EE", <<"U+01EF">>>>,
      <<"U+01F1", <<"U+01F3">>>>, <<"U+01F2", <<"U+01F3">>>>,
      <<"U+01F4", <<"U+01F5">>>>, <<"U+01F6", <<"U+0195">>>>,
      <<"U+01F7", <<"U+01BF">>>>, <<"U+01F8", <<"U+01F9">>>>,
      <<"U+01FA", <<"U+01FB">>>>, <<"U+01FC", <<"U+01FD">>>>,
      <<"U+01FE", <<"U+01FF">>>>, <<"U+0200", <<"U+0201">>>>,
      <<"U+0202", <<"U+0203">>>>, <<"U+0204", <<"U+0205">>>>,
      <<"U+0206", <<"U+0207">>>>, <<"U+0208", <<"U+0209">>>>,
      <<"U+020A", <<"U+020B">>>>, <<"U+020C", <<"U+020D">>>>,
      <<"U+020E", <<"U+020F">>>>, <<"U+0210", <<"U+0211">>>>,
      <<"U+0212", <<"U+0213">>>>, <<"U+0214", <<"U+0215">>>>,
      <<"U+0216", <<"U+0217">>>>, <<"U+0218", <<"U+0219">>>>,
      <<"U+021A", <<"U+021B">>>>, <<"U+021C", <<"U+021D">>>>,
      <<"U+021E", <<"U+021F">>>>, <<"U+0220", <<"U+019E">>>>,
      <<"U+0222", <<"U+0223">>>>, <<"U+0224", <<"U+0225">>>>,
      <<"U+0226", <<"U+0227">>>>, <<"U+0228", <<"U+0229">>>>,
      <<"U+022A", <<"U+022B">>>>, <<"U+022C", <<"U+022D">>>>,
      <<"U+022E", <<"U+022F">>>>, <<"U+0230", <<"U+0231">>>>,
      <<"U+0232", <<"U+0233">>>>, <<"U+023A", <<"U+2C65">>>>,
      <<"U+023B", <<"U+023C">>>>, <<"U+023D", <<"U+019A">>>>,
      <<"U+023E", <<"U+2C66">>>>, <<"U+0241", <<"U+0242">>>>,
      <<"U+0243", <<"U+0180">>>>, <<"U+0244", <<"U+0289">>>>,
      <<"U+0245", <<"U+028C">>>>, <<"U+0246", <<"U+0247">>>>,
      <<"U+0248", <<"U+0249">>>>, <<"U+024A", <<"U+024B">>>>,
      <<"U+024C", <<"U+024D">>>>, <<"U+024E", <<"U+024F">>>>,
      <<"U+0370", <<"U+0371">>>>, <<"U+0372", <<"U+0373">>>>,
      <<"U+0376", <<"U+0377">>>>, <<"U+037F", <<"U+03F3">>>>,
      <<"U+0386", <<"U+03AC">>>>, <<"U+0388", <<"U+03AD">>>>,
      <<"U+0389", <<"U+03AE">>>>, <<"U+038A", <<"U+03AF">>>>,
      <<"U+038C", <<"U+03CC">>>>, <<"U+038E", <<"U+03CD">>>>,
      <<"U+038F", <<"U+03CE">>>>, <<"U+0391", <<"U+03B1">>>>,
      <<"U+0392", <<"U+03B2">>>>, <<"U+0393", <<"U+03B3">>>>,
      <<"U+0394", <<"U+03B4">>>>, <<"U+0395", <<"U+03B5">>>>,
      <<"U+0396", <<"U+03B6">>>>, <<"U+0397", <<"U+03B7">>>>,
      <<"U+0398", <<"U+03B8">>>>, <<"U+0399", <<"U+03B9">>>>,
      <<"U+039A", <<"U+03BA">>>>, <<"U+039B", <<"U+03BB">>>>,
      <<"U+039C", <<"U+03BC">>>>, <<"U+039D", <<"U+03BD">>>>,
      <<"U+039E", <<"U+03BE">>>>, <<"U+039F", <<"U+03BF">>>>,
      <<"U+03A0", <<"U+03C0">>>>, <<"U+03A1", <<"U+03C1">>>>,
      <<"U+03A3", <<"U+03C3">>>>, <<"U+03A4", <<"U+03C4">>>>,
      <<"U+03A5", <<"U+03C5">>>>, <<"U+03A6", <<"U+03C6">>>>,
      <<"U+03A7", <<"U+03C7">>>>, <<"U+03A8", <<"U+03C8">>>>,
      <<"U+03A9", <<"U+03C9">>>>, <<"U+03AA", <<"U+03CA">>>>,
      <<"U+03AB", <<"U+03CB">>>>, <<"U+03CF", <<"U+03D7">>>>,
      <<"U+03D8", <<"U+03D9">>>>, <<"U+03DA", <<"U+03DB">>>>,
      <<"U+03DC", <<"U+03DD">>>>, <<"U+03DE", <<"U+03DF">>>>,
      <<"U+03E0", <<"U+03E1">>>>, <<"U+03E2", <<"U+03E3">>>>,
      <<"U+03E4", <<"U+03E5">>>>, <<"U+03E6", <<"U+03E7">>>>,
      <<"U+03E8", <<"U+03E9">>>>, <<"U+03EA", <<"U+03EB">>>>,
      <<"U+03EC", <<"U+03ED">>>>, <<"U+03EE", <<"U+03EF">>>>,
      <<"U+03F4", <<"U+03B8">>>>, <<"U+03F7", <<"U+03F8">>>>,
      <<"U+03F9", <<"U+03F2">>>>, <<"U+03FA", <<"U+03FB">>>>,
      <<"U+03FD", <<"U+037B">>>>, <<"U+03FE", <<"U+037C">>>>,
      <<"U+03FF", <<"U+037D">>>>, <<"U+0400", <<"U+0450">>>>,
      <<"U+0401", <<"U+0451">>>>, <<"U+0402", <<"U+0452">>>>,
      <<"U+0403", <<"U+0453">>>>, <<"U+0404", <<"U+0454">>>>,
      <<"U+0405", <<"U+0455">>>>, <<"U+0406", <<"U+0456">>>>,
      <<"U+0407", <<"U+0457">>>>, <<"U+0408", <<"U+0458">>>>,
      <<"U+0409", <<"U+0459">>>>, <<"U+040A", <<"U+045A">>>>,
      <<"U+040B", <<"U+045B">>>>, <<"U+040C", <<"U+045C">>>>,
      <<"U+040D", <<"U+045D">>>>, <<"U+040E", <<"U+045E">>>>,
      <<"U+040F", <<"U+045F">>>>, <<"U+0410", <<"U+0430">>>>,
      <<"U+0411", <<"U+0431">>>>, <<"U+0412", <<"U+0432">>>>,
      <<"U+0413", <<"U+0433">>>>, <<"U+0414", <<"U+0434">>>>,
      <<"U+0415", <<"U+0435">>>>, <<"U+0416", <<"U+0436">>>>,
      <<"U+0417", <<"U+0437">>>>, <<"U+0418", <<"U+0438">>>>,
      <<"U+0419", <<"U+0439">>>>, <<"U+041A", <<"U+043A">>>>,
      <<"U+041B", <<"U+043B">>>>, <<"U+041C", <<"U+043C">>>>,
      <<"U+041D", <<"U+043D">>>>, <<"U+041E", <<"U+043E">>>>,
      <<"U+041F", <<"U+043F">>>>, <<"U+0420", <<"U+0440">>>>,
      <<"U+0421", <<"U+0441">>>>, <<"U+0422", <<"U+0442">>>>,
      <<"U+0423", <<"U+0443">>>>, <<"U+0424", <<"U+0444">>>>,
      <<"U+0425", <<"U+0445">>>>, <<"U+0426", <<"U+0446">>>>,
      <<"U+0427", <<"U+0447">>>>, <<"U+0428", <<"U+0448">>>>,
      <<"U+0429", <<"U+0449">>>>, <<"U+042A", <<"U+044A">>>>,
      <<"U+042B", <<"U+044B">>>>, <<"U+042C", <<"U+044C">>>>,
      <<"U+042D", <<"U+044D">>>>, <<"U+042E", <<"U+044E">>>>,
      <<"U+042F", <<"U+044F">>>>, <<"U+0460", <<"U+0461">>>>,
      <<"U+0462", <<"U+0463">>>>, <<"U+0464", <<"U+0465">>>>,
      <<"U+0466", <<"U+0467">>>>, <<"U+0468", <<"U+0469">>>>,
      <<"U+046A", <<"U+046B">>>>, <<"U+046C", <<"U+046D">>>>,
      <<"U+046E", <<"U+046F">>>>, <<"U+0470", <<"U+0471">>>>,
      <<"U+0472", <<"U+0473">>>>, <<"U+0474", <<"U+0475">>>>,
      <<"U+0476", <<"U+0477">>>>, <<"U+0478", <<"U+0479">>>>,
      <<"U+047A", <<"U+047B">>>>, <<"U+047C", <<"U+047D">>>>,
      <<"U+047E", <<"U+047F">>>>, <<"U+0480", <<"U+0481">>>>,
      <<"U+048A", <<"U+048B">>>>, <<"U+048C", <<"U+048D">>>>,
      <<"U+048E", <<"U+048F">>>>, <<"U+0490", <<"U+0491">>>>,
      <<"U+0492", <<"U+0493">>>>, <<"U+0494", <<"U+0495">>>>,
      <<"U+0496", <<"U+0497">>>>, <<"U+0498", <<"U+0499">>>>,
      <<"U+049A", <<"U+049B">>>>, <<"U+049C", <<"U+049D">>>>,
      <<"U+049E", <<"U+049F">>>>, <<"U+04A0", <<"U+04A1">>>>,
      <<"U+04A2", <<"U+04A3">>>>, <<"U+04A4", <<"U+04A5">>>>,
      <<"U+04A6", <<"U+04A7">>>>, <<"U+04A8", <<"U+04A9">>>>,
      <<"U+04AA", <<"U+04AB">>>>, <<"U+04AC", <<"U+04AD">>>>,
      <<"U+04AE", <<"U+04AF">>>>, <<"U+04B0", <<"U+04B1">>>>,
      <<"U+04B2", <<"U+04B3">>>>, <<"U+04B4", <<"U+04B5">>>>,
      <<"U+04B6", <<"U+04B7">>>>, <<"U+04B8", <<"U+04B9">>>>,
      <<"U+04BA", <<"U+04BB">>>>, <<"U+04BC", <<"U+04BD">>>>,
      <<"U+04BE", <<"U+04BF">>>>, <<"U+04C0", <<"U+04CF">>>>,
      <<"U+04C1", <<"U+04C2">>>>, <<"U+04C3", <<"U+04C4">>>>,
      <<"U+04C5", <<"U+04C6">>>>, <<"U+04C7", <<"U+04C8">>>>,
      <<"U+04C9", <<"U+04CA">>>>, <<"U+04CB", <<"U+04CC">>>>,
      <<"U+04CD", <<"U+04CE">>>>, <<"U+04D0", <<"U+04D1">>>>,
      <<"U+04D2", <<"U+04D3">>>>, <<"U+04D4", <<"U+04D5">>>>,
      <<"U+04D6", <<"U+04D7">>>>, <<"U+04D8", <<"U+04D9">>>>,
      <<"U+04DA", <<"U+04DB">>>>, <<"U+04DC", <<"U+04DD">>>>,
      <<"U+04DE", <<"U+04DF">>>>, <<"U+04E0", <<"U+04E1">>>>,
      <<"U+04E2", <<"U+04E3">>>>, <<"U+04E4", <<"U+04E5">>>>,
      <<"U+04E6", <<"U+04E7">>>>, <<"U+04E8", <<"U+04E9">>>>,
      <<"U+04EA", <<"U+04EB">>>>, <<"U+04EC", <<"U+04ED">>>>,
      <<"U+04EE", <<"U+04EF">>>>, <<"U+04F0", <<"U+04F1">>>>,
      <<"U+04F2", <<"U+04F3">>>>, <<"U+04F4", <<"U+04F5">>>>,
      <<"U+04F6", <<"U+04F7">>>>, <<"U+04F8", <<"U+04F9">>>>,
      <<"U+04FA", <<"U+04FB">>>>, <<"U+04FC", <<"U+04FD">>>>,
      <<"U+04FE", <<"U+04FF">>>>, <<"U+0500", <<"U+0501">>>>,
      <<"U+0502", <<"U+0503">>>>, <<"U+0504", <<"U+0505">>>>,
      <<"U+0506", <<"U+0507">>>>, <<"U+0508", <<"U+0509">>>>,
      <<"U+050A", <<"U+050B">>>>, <<"U+050C", <<"U+050D">>>>,
      <<"U+050E", <<"U+050F">>>>, <<"U+0510", <<"U+0511">>>>,
      <<"U+0512", <<"U+0513">>>>, <<"U+0514", <<"U+0515">>>>,
      <<"U+0516", <<"U+0517">>>>, <<"U+0518", <<"U+0519">>>>,
      <<"U+051A", <<"U+051B">>>>, <<"U+051C", <<"U+051D">>>>,
      <<"U+051E", <<"U+051F">>>>, <<"U+0520", <<"U+0521">>>>,
      <<"U+0522", <<"U+0523">>>>, <<"U+0524", <<"U+0525">>>>,
      <<"U+0526", <<"U+0527">>>>, <<"U+0528", <<"U+0529">>>>,
      <<"U+052A", <<"U+052B">>>>, <<"U+052C", <<"U+052D">>>>,
      <<"U+052E", <<"U+052F">>>>, <<"U+0531", <<"U+0561">>>>,
      <<"U+0532", <<"U+0562">>>>, <<"U+0533", <<"U+0563">>>>,
      <<"U+0534", <<"U+0564">>>>, <<"U+0535", <<"U+0565">>>>,
      <<"U+0536", <<"U+0566">>>>, <<"U+0537", <<"U+0567">>>>,
      <<"U+0538", <<"U+0568">>>>, <<"U+0539", <<"U+0569">>>>,
      <<"U+053A", <<"U+056A">>>>, <<"U+053B", <<"U+056B">>>>,
      <<"U+053C", <<"U+056C">>>>, <<"U+053D", <<"U+056D">>>>,
      <<"U+053E", <<"U+056E">>>>, <<"U+053F", <<"U+056F">>>>,
      <<"U+0540", <<"U+0570">>>>, <<"U+0541", <<"U+0571">>>>,
      <<"U+0542", <<"U+0572">>>>, <<"U+0543", <<"U+0573">>>>,
      <<"U+0544", <<"U+0574">>>>, <<"U+0545", <<"U+0575">>>>,
      <<"U+0546", <<"U+0576">>>>, <<"U+0547", <<"U+0577">>>>,
      <<"U+0548", <<"U+0578">>>>, <<"U+0549", <<"U+0579">>>>,
      <<"U+054A", <<"U+057A">>>>, <<"U+054B", <<"U+057B">>>>,
      <<"U+054C", <<"U+057C">>>>, <<"U+054D", <<"U+057D">>>>,
      <<"U+054E", <<"U+057E">>>>, <<"U+054F", <<"U+057F">>>>,
      <<"U+0550", <<"U+0580">>>>, <<"U+0551", <<"U+0581">>>>,
      <<"U+0552", <<"U+0582">>>>, <<"U+0553", <<"U+0583">>>>,
      <<"U+0554", <<"U+0584">>>>, <<"U+0555", <<"U+0585">>>>,
      <<"U+0556", <<"U+0586">>>>, <<"U+10A0", <<"U+2D00">>>>,
      <<"U+10A1", <<"U+2D01">>>>, <<"U+10A2", <<"U+2D02">>>>,
      <<"U+10A3", <<"U+2D03">>>>, <<"U+10A4", <<"U+2D04">>>>,
      <<"U+10A5", <<"U+2D05">>>>, <<"U+10A6", <<"U+2D06">>>>,
      <<"U+10A7", <<"U+2D07">>>>, <<"U+10A8", <<"U+2D08">>>>,
      <<"U+10A9", <<"U+2D09">>>>, <<"U+10AA", <<"U+2D0A">>>>,
      <<"U+10AB", <<"U+2D0B">>>>, <<"U+10AC", <<"U+2D0C">>>>,
      <<"U+10AD", <<"U+2D0D">>>>, <<"U+10AE", <<"U+2D0E">>>>,
      <<"U+10AF", <<"U+2D0F">>>>, <<"U+10B0", <<"U+2D10">>>>,
      <<"U+10B1", <<"U+2D11">>>>, <<"U+10B2", <<"U+2D12">>>>,
      <<"U+10B3", <<"U+2D13">>>>, <<"U+10B4", <<"U+2D14">>>>,
      <<"U+10B5", <<"U+2D15">>>>, <<"U+10B6", <<"U+2D16">>>>,
      <<"U+10B7", <<"U+2D17">>>>, <<"U+10B8", <<"U+2D18">>>>,
      <<"U+10B9", <<"U+2D19">>>>, <<"U+10BA", <<"U+2D1A">>>>,
      <<"U+10BB", <<"U+2D1B">>>>, <<"U+10BC", <<"U+2D1C">>>>,
      <<"U+10BD", <<"U+2D1D">>>>, <<"U+10BE", <<"U+2D1E">>>>,
      <<"U+10BF", <<"U+2D1F">>>>, <<"U+10C0", <<"U+2D20">>>>,
      <<"U+10C1", <<"U+2D21">>>>, <<"U+10C2", <<"U+2D22">>>>,
      <<"U+10C3", <<"U+2D23">>>>, <<"U+10C4", <<"U+2D24">>>>,
      <<"U+10C5", <<"U+2D25">>>>, <<"U+10C7", <<"U+2D27">>>>,
      <<"U+10CD", <<"U+2D2D">>>>, <<"U+13A0", <<"U+AB70">>>>,
      <<"U+13A1", <<"U+AB71">>>>, <<"U+13A2", <<"U+AB72">>>>,
      <<"U+13A3", <<"U+AB73">>>>, <<"U+13A4", <<"U+AB74">>>>,
      <<"U+13A5", <<"U+AB75">>>>, <<"U+13A6", <<"U+AB76">>>>,
      <<"U+13A7", <<"U+AB77">>>>, <<"U+13A8", <<"U+AB78">>>>,
      <<"U+13A9", <<"U+AB79">>>>, <<"U+13AA", <<"U+AB7A">>>>,
      <<"U+13AB", <<"U+AB7B">>>>, <<"U+13AC", <<"U+AB7C">>>>,
      <<"U+13AD", <<"U+AB7D">>>>, <<"U+13AE", <<"U+AB7E">>>>,
      <<"U+13AF", <<"U+AB7F">>>>, <<"U+13B0", <<"U+AB80">>>>,
      <<"U+13B1", <<"U+AB81">>>>, <<"U+13B2", <<"U+AB82">>>>,
      <<"U+13B3", <<"U+AB83">>>>, <<"U+13B4", <<"U+AB84">>>>,
      <<"U+13B5", <<"U+AB85">>>>, <<"U+13B6", <<"U+AB86">>>>,
      <<"U+13B7", <<"U+AB87">>>>, <<"U+13B8", <<"U+AB88">>>>,
      <<"U+13B9", <<"U+AB89">>>>, <<"U+13BA", <<"U+AB8A">>>>,
      <<"U+13BB", <<"U+AB8B">>>>, <<"U+13BC", <<"U+AB8C">>>>,
      <<"U+13BD", <<"U+AB8D">>>>, <<"U+13BE", <<"U+AB8E">>>>,
      <<"U+13BF", <<"U+AB8F">>>>, <<"U+13C0", <<"U+AB90">>>>,
      <<"U+13C1", <<"U+AB91">>>>, <<"U+13C2", <<"U+AB92">>>>,
      <<"U+13C3", <<"U+AB93">>>>, <<"U+13C4", <<"U+AB94">>>>,
      <<"U+13C5", <<"U+AB95">>>>, <<"U+13C6", <<"U+AB96">>>>,
      <<"U+13C7", <<"U+AB97">>>>, <<"U+13C8", <<"U+AB98">>>>,
      <<"U+13C9", <<"U+AB99">>>>, <<"U+13CA", <<"U+AB9A">>>>,
      <<"U+13CB", <<"U+AB9B">>>>, <<"U+13CC", <<"U+AB9C">>>>,
      <<"U+13CD", <<"U+AB9D">>>>, <<"U+13CE", <<"U+AB9E">>>>,
      <<"U+13CF", <<"U+AB9F">>>>, <<"U+13D0", <<"U+ABA0">>>>,
      <<"U+13D1", <<"U+ABA1">>>>, <<"U+13D2", <<"U+ABA2">>>>,
      <<"U+13D3", <<"U+ABA3">>>>, <<"U+13D4", <<"U+ABA4">>>>,
      <<"U+13D5", <<"U+ABA5">>>>, <<"U+13D6", <<"U+ABA6">>>>,
      <<"U+13D7", <<"U+ABA7">>>>, <<"U+13D8", <<"U+ABA8">>>>,
      <<"U+13D9", <<"U+ABA9">>>>, <<"U+13DA", <<"U+ABAA">>>>,
      <<"U+13DB", <<"U+ABAB">>>>, <<"U+13DC", <<"U+ABAC">>>>,
      <<"U+13DD", <<"U+ABAD">>>>, <<"U+13DE", <<"U+ABAE">>>>,
      <<"U+13DF", <<"U+ABAF">>>>, <<"U+13E0", <<"U+ABB0">>>>,
      <<"U+13E1", <<"U+ABB1">>>>, <<"U+13E2", <<"U+ABB2">>>>,
      <<"U+13E3", <<"U+ABB3">>>>, <<"U+13E4", <<"U+ABB4">>>>,
      <<"U+13E5", <<"U+ABB5">>>>, <<"U+13E6", <<"U+ABB6">>>>,
      <<"U+13E7", <<"U+ABB7">>>>, <<"U+13E8", <<"U+ABB8">>>>,
      <<"U+13E9", <<"U+ABB9">>>>, <<"U+13EA", <<"U+ABBA">>>>,
      <<"U+13EB", <<"U+ABBB">>>>, <<"U+13EC", <<"U+ABBC">>>>,
      <<"U+13ED", <<"U+ABBD">>>>, <<"U+13EE", <<"U+ABBE">>>>,
      <<"U+13EF", <<"U+ABBF">>>>, <<"U+13F0", <<"U+13F8">>>>,
      <<"U+13F1", <<"U+13F9">>>>, <<"U+13F2", <<"U+13FA">>>>,
      <<"U+13F3", <<"U+13FB">>>>, <<"U+13F4", <<"U+13FC">>>>,
      <<"U+13F5", <<"U+13FD">>>>, <<"U+1C90", <<"U+10D0">>>>,
      <<"U+1C91", <<"U+10D1">>>>, <<"U+1C92", <<"U+10D2">>>>,
      <<"U+1C93", <<"U+10D3">>>>, <<"U+1C94", <<"U+10D4">>>>,
      <<"U+1C95", <<"U+10D5">>>>, <<"U+1C96", <<"U+10D6">>>>,
      <<"U+1C97", <<"U+10D7">>>>, <<"U+1C98", <<"U+10D8">>>>,
      <<"U+1C99", <<"U+10D9">>>>, <<"U+1C9A", <<"U+10DA">>>>,
      <<"U+1C9B", <<"U+10DB">>>>, <<"U+1C9C", <<"U+10DC">>>>,
      <<"U+1C9D", <<"U+10DD">>>>, <<"U+1C9E", <<"U+10DE">>>>,
      <<"U+1C9F", <<"U+10DF">>>>, <<"U+1CA0", <<"U+10E0">>>>,
      <<"U+1CA1", <<"U+10E1">>>>, <<"U+1CA2", <<"U+10E2">>>>,
      <<"U+1CA3", <<"U+10E3">>>>, <<"U+1CA4", <<"U+10E4">>>>,
      <<"U+1CA5", <<"U+10E5">>>>, <<"U+1CA6", <<"U+10E6">>>>,
      <<"U+1CA7", <<"U+10E7">>>>, <<"U+1CA8", <<"U+10E8">>>>,
      <<"U+1CA9", <<"U+10E9">>>>, <<"U+1CAA", <<"U+10EA">>>>,
      <<"U+1CAB", <<"U+10EB">>>>, <<"U+1CAC", <<"U+10EC">>>>,
      <<"U+1CAD", <<"U+10ED">>>>, <<"U+1CAE", <<"U+10EE">>>>,
      <<"U+1CAF", <<"U+10EF">>>>, <<"U+1CB0", <<"U+10F0">>>>,
      <<"U+1CB1", <<"U+10F1">>>>, <<"U+1CB2", <<"U+10F2">>>>,
      <<"U+1CB3", <<"U+10F3">>>>, <<"U+1CB4", <<"U+10F4">>>>,
      <<"U+1CB5", <<"U+10F5">>>>, <<"U+1CB6", <<"U+10F6">>>>,
      <<"U+1CB7", <<"U+10F7">>>>, <<"U+1CB8", <<"U+10F8">>>>,
      <<"U+1CB9", <<"U+10F9">>>>, <<"U+1CBA", <<"U+10FA">>>>,
      <<"U+1CBD", <<"U+10FD">>>>, <<"U+1CBE", <<"U+10FE">>>>,
      <<"U+1CBF", <<"U+10FF">>>>, <<"U+1E00", <<"U+1E01">>>>,
      <<"U+1E02", <<"U+1E03">>>>, <<"U+1E04", <<"U+1E05">>>>,
      <<"U+1E06", <<"U+1E07">>>>, <<"U+1E08", <<"U+1E09">>>>,
      <<"U+1E0A", <<"U+1E0B">>>>, <<"U+1E0C", <<"U+1E0D">>>>,
      <<"U+1E0E", <<"U+1E0F">>>>, <<"U+1E10", <<"U+1E11">>>>,
      <<"U+1E12", <<"U+1E13">>>>, <<"U+1E14", <<"U+1E15">>>>,
      <<"U+1E16", <<"U+1E17">>>>, <<"U+1E18", <<"U+1E19">>>>,
      <<"U+1E1A", <<"U+1E1B">>>>, <<"U+1E1C", <<"U+1E1D">>>>,
      <<"U+1E1E", <<"U+1E1F">>>>, <<"U+1E20", <<"U+1E21">>>>,
      <<"U+1E22", <<"U+1E23">>>>, <<"U+1E24", <<"U+1E25">>>>,
      <<"U+1E26", <<"U+1E27">>>>, <<"U+1E28", <<"U+1E29">>>>,
      <<"U+1E2A", <<"U+1E2B">>>>, <<"U+1E2C", <<"U+1E2D">>>>,
      <<"U+1E2E", <<"U+1E2F">>>>, <<"U+1E30", <<"U+1E31">>>>,
      <<"U+1E32", <<"U+1E33">>>>, <<"U+1E34", <<"U+1E35">>>>,
      <<"U+1E36", <<"U+1E37">>>>, <<"U+1E38", <<"U+1E39">>>>,
      <<"U+1E3A", <<"U+1E3B">>>>, <<"U+1E3C", <<"U+1E3D">>>>,
      <<"U+1E3E", <<"U+1E3F">>>>, <<"U+1E40", <<"U+1E41">>>>,
      <<"U+1E42", <<"U+1E43">>>>, <<"U+1E44", <<"U+1E45">>>>,
      <<"U+1E46", <<"U+1E47">>>>, <<"U+1E48", <<"U+1E49">>>>,
      <<"U+1E4A", <<"U+1E4B">>>>, <<"U+1E4C", <<"U+1E4D">>>>,
      <<"U+1E4E", <<"U+1E4F">>>>, <<"U+1E50", <<"U+1E51">>>>,
      <<"U+1E52", <<"U+1E53">>>>, <<"U+1E54", <<"U+1E55">>>>,
      <<"U+1E56", <<"U+1E57">>>>, <<"U+1E58", <<"U+1E59">>>>,
      <<"U+1E5A", <<"U+1E5B">>>>, <<"U+1E5C", <<"U+1E5D">>>>,
      <<"U+1E5E", <<"U+1E5F">>>>, <<"U+1E60", <<"U+1E61">>>>,
      <<"U+1E62", <<"U+1E63">>>>, <<"U+1E64", <<"U+1E65">>>>,
      <<"U+1E66", <<"U+1E67">>>>, <<"U+1E68", <<"U+1E69">>>>,
      <<"U+1E6A", <<"U+1E6B">>>>, <<"U+1E6C", <<"U+1E6D">>>>,
      <<"U+1E6E", <<"U+1E6F">>>>, <<"U+1E70", <<"U+1E71">>>>,
      <<"U+1E72", <<"U+1E73">>>>, <<"U+1E74", <<"U+1E75">>>>,
      <<"U+1E76", <<"U+1E77">>>>, <<"U+1E78", <<"U+1E79">>>>,
      <<"U+1E7A", <<"U+1E7B">>>>, <<"U+1E7C", <<"U+1E7D">>>>,
      <<"U+1E7E", <<"U+1E7F">>>>, <<"U+1E80", <<"U+1E81">>>>,
      <<"U+1E82", <<"U+1E83">>>>, <<"U+1E84", <<"U+1E85">>>>,
      <<"U+1E86", <<"U+1E87">>>>, <<"U+1E88", <<"U+1E89">>>>,
      <<"U+1E8A", <<"U+1E8B">>>>, <<"U+1E8C", <<"U+1E8D">>>>,
      <<"U+1E8E", <<"U+1E8F">>>>, <<"U+1E90", <<"U+1E91">>>>,
      <<"U+1E92", <<"U+1E93">>>>, <<"U+1E94", <<"U+1E95">>>>,
      <<"U+1E9E", <<"ß">>>>, <<"U+1EA0", <<"U+1EA1">>>>,
      <<"U+1EA2", <<"U+1EA3">>>>, <<"U+1EA4", <<"U+1EA5">>>>,
      <<"U+1EA6", <<"U+1EA7">>>>, <<"U+1EA8", <<"U+1EA9">>>>,
      <<"U+1EAA", <<"U+1EAB">>>>, <<"U+1EAC", <<"U+1EAD">>>>,
      <<"U+1EAE", <<"U+1EAF">>>>, <<"U+1EB0", <<"U+1EB1">>>>,
      <<"U+1EB2", <<"U+1EB3">>>>, <<"U+1EB4", <<"U+1EB5">>>>,
      <<"U+1EB6", <<"U+1EB7">>>>, <<"U+1EB8", <<"U+1EB9">>>>,
      <<"U+1EBA", <<"U+1EBB">>>>, <<"U+1EBC", <<"U+1EBD">>>>,
      <<"U+1EBE", <<"U+1EBF">>>>, <<"U+1EC0", <<"U+1EC1">>>>,
      <<"U+1EC2", <<"U+1EC3">>>>, <<"U+1EC4", <<"U+1EC5">>>>,
      <<"U+1EC6", <<"U+1EC7">>>>, <<"U+1EC8", <<"U+1EC9">>>>,
      <<"U+1ECA", <<"U+1ECB">>>>, <<"U+1ECC", <<"U+1ECD">>>>,
      <<"U+1ECE", <<"U+1ECF">>>>, <<"U+1ED0", <<"U+1ED1">>>>,
      <<"U+1ED2", <<"U+1ED3">>>>, <<"U+1ED4", <<"U+1ED5">>>>,
      <<"U+1ED6", <<"U+1ED7">>>>, <<"U+1ED8", <<"U+1ED9">>>>,
      <<"U+1EDA", <<"U+1EDB">>>>, <<"U+1EDC", <<"U+1EDD">>>>,
      <<"U+1EDE", <<"U+1EDF">>>>, <<"U+1EE0", <<"U+1EE1">>>>,
      <<"U+1EE2", <<"U+1EE3">>>>, <<"U+1EE4", <<"U+1EE5">>>>,
      <<"U+1EE6", <<"U+1EE7">>>>, <<"U+1EE8", <<"U+1EE9">>>>,
      <<"U+1EEA", <<"U+1EEB">>>>, <<"U+1EEC", <<"U+1EED">>>>,
      <<"U+1EEE", <<"U+1EEF">>>>, <<"U+1EF0", <<"U+1EF1">>>>,
      <<"U+1EF2", <<"U+1EF3">>>>, <<"U+1EF4", <<"U+1EF5">>>>,
      <<"U+1EF6", <<"U+1EF7">>>>, <<"U+1EF8", <<"U+1EF9">>>>,
      <<"U+1EFA", <<"U+1EFB">>>>, <<"U+1EFC", <<"U+1EFD">>>>,
      <<"U+1EFE", <<"U+1EFF">>>>, <<"U+1F08", <<"U+1F00">>>>,
      <<"U+1F09", <<"U+1F01">>>>, <<"U+1F0A", <<"U+1F02">>>>,
      <<"U+1F0B", <<"U+1F03">>>>, <<"U+1F0C", <<"U+1F04">>>>,
      <<"U+1F0D", <<"U+1F05">>>>, <<"U+1F0E", <<"U+1F06">>>>,
      <<"U+1F0F", <<"U+1F07">>>>, <<"U+1F18", <<"U+1F10">>>>,
      <<"U+1F19", <<"U+1F11">>>>, <<"U+1F1A", <<"U+1F12">>>>,
      <<"U+1F1B", <<"U+1F13">>>>, <<"U+1F1C", <<"U+1F14">>>>,
      <<"U+1F1D", <<"U+1F15">>>>, <<"U+1F28", <<"U+1F20">>>>,
      <<"U+1F29", <<"U+1F21">>>>, <<"U+1F2A", <<"U+1F22">>>>,
      <<"U+1F2B", <<"U+1F23">>>>, <<"U+1F2C", <<"U+1F24">>>>,
      <<"U+1F2D", <<"U+1F25">>>>, <<"U+1F2E", <<"U+1F26">>>>,
      <<"U+1F2F", <<"U+1F27">>>>, <<"U+1F38", <<"U+1F30">>>>,
      <<"U+1F39", <<"U+1F31">>>>, <<"U+1F3A", <<"U+1F32">>>>,
      <<"U+1F3B", <<"U+1F33">>>>, <<"U+1F3C", <<"U+1F34">>>>,
      <<"U+1F3D", <<"U+1F35">>>>, <<"U+1F3E", <<"U+1F36">>>>,
      <<"U+1F3F", <<"U+1F37">>>>, <<"U+1F48", <<"U+1F40">>>>,
      <<"U+1F49", <<"U+1F41">>>>, <<"U+1F4A", <<"U+1F42">>>>,
      <<"U+1F4B", <<"U+1F43">>>>, <<"U+1F4C", <<"U+1F44">>>>,
      <<"U+1F4D", <<"U+1F45">>>>, <<"U+1F59", <<"U+1F51">>>>,
      <<"U+1F5B", <<"U+1F53">>>>, <<"U+1F5D", <<"U+1F55">>>>,
      <<"U+1F5F", <<"U+1F57">>>>, <<"U+1F68", <<"U+1F60">>>>,
      <<"U+1F69", <<"U+1F61">>>>, <<"U+1F6A", <<"U+1F62">>>>,
      <<"U+1F6B", <<"U+1F63">>>>, <<"U+1F6C", <<"U+1F64">>>>,
      <<"U+1F6D", <<"U+1F65">>>>, <<"U+1F6E", <<"U+1F66">>>>,
      <<"U+1F6F", <<"U+1F67">>>>, <<"U+1F88", <<"U+1F80">>>>,
      <<"U+1F89", <<"U+1F81">>>>, <<"U+1F8A", <<"U+1F82">>>>,
      <<"U+1F8B", <<"U+1F83">>>>, <<"U+1F8C", <<"U+1F84">>>>,
      <<"U+1F8D", <<"U+1F85">>>>, <<"U+1F8E", <<"U+1F86">>>>,
      <<"U+1F8F", <<"U+1F87">>>>, <<"U+1F98", <<"U+1F90">>>>,
      <<"U+1F99", <<"U+1F91">>>>, <<"U+1F9A", <<"U+1F92">>>>,
      <<"U+1F9B", <<"U+1F93">>>>, <<"U+1F9C", <<"U+1F94">>>>,
      <<"U+1F9D", <<"U+1F95">>>>, <<"U+1F9E", <<"U+1F96">>>>,
      <<"U+1F9F", <<"U+1F97">>>>, <<"U+1FA8", <<"U+1FA0">>>>,
      <<"U+1FA9", <<"U+1FA1">>>>, <<"U+1FAA", <<"U+1FA2">>>>,
      <<"U+1FAB", <<"U+1FA3">>>>, <<"U+1FAC", <<"U+1FA4">>>>,
      <<"U+1FAD", <<"U+1FA5">>>>, <<"U+1FAE", <<"U+1FA6">>>>,
      <<"U+1FAF", <<"U+1FA7">>>>, <<"U+1FB8", <<"U+1FB0">>>>,
      <<"U+1FB9", <<"U+1FB1">>>>, <<"U+1FBA", <<"U+1F70">>>>,
      <<"U+1FBB", <<"U+1F71">>>>, <<"U+1FBC", <<"U+1FB3">>>>,
      <<"U+1FC8", <<"U+1F72">>>>, <<"U+1FC9", <<"U+1F73">>>>,
      <<"U+1FCA", <<"U+1F74">>>>, <<"U+1FCB", <<"U+1F75">>>>,
      <<"U+1FCC", <<"U+1FC3">>>>, <<"U+1FD8", <<"U+1FD0">>>>,
      <<"U+1FD9", <<"U+1FD1">>>>, <<"U+1FDA", <<"U+1F76">>>>,
      <<"U+1FDB", <<"U+1F77">>>>, <<"U+1FE8", <<"U+1FE0">>>>,
      <<"U+1FE9", <<"U+1FE1">>>>, <<"U+1FEA", <<"U+1F7A">>>>,
      <<"U+1FEB", <<"U+1F7B">>>>, <<"U+1FEC", <<"U+1FE5">>>>,
      <<"U+1FF8", <<"U+1F78">>>>, <<"U+1FF9", <<"U+1F79">>>>,
      <<"U+1FFA", <<"U+1F7C">>>>, <<"U+1FFB", <<"U+1F7D">>>>,
      <<"U+1FFC", <<"U+1FF3">>>>, <<"U+2126", <<"U+03C9">>>>,
      <<"U+212A", <<"k">>>>, <<"U+212B", <<"å">>>>,
      <<"U+2132", <<"U+214E">>>>, <<"U+2160", <<"U+2170">>>>,
      <<"U+2161", <<"U+2171">>>>, <<"U+2162", <<"U+2172">>>>,
      <<"U+2163", <<"U+2173">>>>, <<"U+2164", <<"U+2174">>>>,
      <<"U+2165", <<"U+2175">>>>, <<"U+2166", <<"U+2176">>>>,
      <<"U+2167", <<"U+2177">>>>, <<"U+2168", <<"U+2178">>>>,
      <<"U+2169", <<"U+2179">>>>, <<"U+216A", <<"U+217A">>>>,
      <<"U+216B", <<"U+217B">>>>, <<"U+216C", <<"U+217C">>>>,
      <<"U+216D", <<"U+217D">>>>, <<"U+216E", <<"U+217E">>>>,
      <<"U+216F", <<"U+217F">>>>, <<"U+2183", <<"U+2184">>>>,
      <<"U+24B6", <<"U+24D0">>>>, <<"U+24B7", <<"U+24D1">>>>,
      <<"U+24B8", <<"U+24D2">>>>, <<"U+24B9", <<"U+24D3">>>>,
      <<"U+24BA", <<"U+24D4">>>>, <<"U+24BB", <<"U+24D5">>>>,
      <<"U+24BC", <<"U+24D6">>>>, <<"U+24BD", <<"U+24D7">>>>,
      <<"U+24BE", <<"U+24D8">>>>, <<"U+24BF", <<"U+24D9">>>>,
      <<"U+24C0", <<"U+24DA">>>>, <<"U+24C1", <<"U+24DB">>>>,
      <<"U+24C2", <<"U+24DC">>>>, <<"U+24C3", <<"U+24DD">>>>,
      <<"U+24C4", <<"U+24DE">>>>, <<"U+24C5", <<"U+24DF">>>>,
      <<"U+24C6", <<"U+24E0">>>>, <<"U+24C7", <<"U+24E1">>>>,
      <<"U+24C8", <<"U+24E2">>>>, <<"U+24C9", <<"U+24E3">>>>,
      <<"U+24CA", <<"U+24E4">>>>, <<"U+24CB", <<"U+24E5">>>>,
      <<"U+24CC", <<"U+24E6">>>>, <<"U+24CD", <<"U+24E7">>>>,
      <<"U+24CE", <<"U+24E8">>>>, <<"U+24CF", <<"U+24E9">>>>,
      <<"U+2C00", <<"U+2C30">>>>, <<"U+2C01", <<"U+2C31">>>>,
      <<"U+2C02", <<"U+2C32">>>>, <<"U+2C03", <<"U+2C33">>>>,
      <<"U+2C04", <<"U+2C34">>>>, <<"U+2C05", <<"U+2C35">>>>,
      <<"U+2C06", <<"U+2C36">>>>, <<"U+2C07", <<"U+2C37">>>>,
      <<"U+2C08", <<"U+2C38">>>>, <<"U+2C09", <<"U+2C39">>>>,
      <<"U+2C0A", <<"U+2C3A">>>>, <<"U+2C0B", <<"U+2C3B">>>>,
      <<"U+2C0C", <<"U+2C3C">>>>, <<"U+2C0D", <<"U+2C3D">>>>,
      <<"U+2C0E", <<"U+2C3E">>>>, <<"U+2C0F", <<"U+2C3F">>>>,
      <<"U+2C10", <<"U+2C40">>>>, <<"U+2C11", <<"U+2C41">>>>,
      <<"U+2C12", <<"U+2C42">>>>, <<"U+2C13", <<"U+2C43">>>>,
      <<"U+2C14", <<"U+2C44">>>>, <<"U+2C15", <<"U+2C45">>>>,
      <<"U+2C16", <<"U+2C46">>>>, <<"U+2C17", <<"U+2C47">>>>,
      <<"U+2C18", <<"U+2C48">>>>, <<"U+2C19", <<"U+2C49">>>>,
      <<"U+2C1A", <<"U+2C4A">>>>, <<"U+2C1B", <<"U+2C4B">>>>,
      <<"U+2C1C", <<"U+2C4C">>>>, <<"U+2C1D", <<"U+2C4D">>>>,
      <<"U+2C1E", <<"U+2C4E">>>>, <<"U+2C1F", <<"U+2C4F">>>>,
      <<"U+2C20", <<"U+2C50">>>>, <<"U+2C21", <<"U+2C51">>>>,
      <<"U+2C22", <<"U+2C52">>>>, <<"U+2C23", <<"U+2C53">>>>,
      <<"U+2C24", <<"U+2C54">>>>, <<"U+2C25", <<"U+2C55">>>>,
      <<"U+2C26", <<"U+2C56">>>>, <<"U+2C27", <<"U+2C57">>>>,
      <<"U+2C28", <<"U+2C58">>>>, <<"U+2C29", <<"U+2C59">>>>,
      <<"U+2C2A", <<"U+2C5A">>>>, <<"U+2C2B", <<"U+2C5B">>>>,
      <<"U+2C2C", <<"U+2C5C">>>>, <<"U+2C2D", <<"U+2C5D">>>>,
      <<"U+2C2E", <<"U+2C5E">>>>, <<"U+2C2F", <<"U+2C5F">>>>,
      <<"U+2C60", <<"U+2C61">>>>, <<"U+2C62", <<"U+026B">>>>,
      <<"U+2C63", <<"U+1D7D">>>>, <<"U+2C64", <<"U+027D">>>>,
      <<"U+2C67", <<"U+2C68">>>>, <<"U+2C69", <<"U+2C6A">>>>,
      <<"U+2C6B", <<"U+2C6C">>>>, <<"U+2C6D", <<"U+0251">>>>,
      <<"U+2C6E", <<"U+0271">>>>, <<"U+2C6F", <<"U+0250">>>>,
      <<"U+2C70", <<"U+0252">>>>, <<"U+2C72", <<"U+2C73">>>>,
      <<"U+2C75", <<"U+2C76">>>>, <<"U+2C7E", <<"U+023F">>>>,
      <<"U+2C7F", <<"U+0240">>>>, <<"U+2C80", <<"U+2C81">>>>,
      <<"U+2C82", <<"U+2C83">>>>, <<"U+2C84", <<"U+2C85">>>>,
      <<"U+2C86", <<"U+2C87">>>>, <<"U+2C88", <<"U+2C89">>>>,
      <<"U+2C8A", <<"U+2C8B">>>>, <<"U+2C8C", <<"U+2C8D">>>>,
      <<"U+2C8E", <<"U+2C8F">>>>, <<"U+2C90", <<"U+2C91">>>>,
      <<"U+2C92", <<"U+2C93">>>>, <<"U+2C94", <<"U+2C95">>>>,
      <<"U+2C96", <<"U+2C97">>>>, <<"U+2C98", <<"U+2C99">>>>,
      <<"U+2C9A", <<"U+2C9B">>>>, <<"U+2C9C", <<"U+2C9D">>>>,
      <<"U+2C9E", <<"U+2C9F">>>>, <<"U+2CA0", <<"U+2CA1">>>>,
      <<"U+2CA2", <<"U+2CA3">>>>, <<"U+2CA4", <<"U+2CA5">>>>,
      <<"U+2CA6", <<"U+2CA7">>>>, <<"U+2CA8", <<"U+2CA9">>>>,
      <<"U+2CAA", <<"U+2CAB">>>>, <<"U+2CAC", <<"U+2CAD">>>>,
      <<"U+2CAE", <<"U+2CAF">>>>, <<"U+2CB0", <<"U+2CB1">>>>,
      <<"U+2CB2", <<"U+2CB3">>>>, <<"U+2CB4", <<"U+2CB5">>>>,
      <<"U+2CB6", <<"U+2CB7">>>>, <<"U+2CB8", <<"U+2CB9">>>>,
      <<"U+2CBA", <<"U+2CBB">>>>, <<"U+2CBC", <<"U+2CBD">>>>,
      <<"U+2CBE", <<"U+2CBF">>>>, <<"U+2CC0", <<"U+2CC1">>>>,
      <<"U+2CC2", <<"U+2CC3">>>>, <<"U+2CC4", <<"U+2CC5">>>>,
      <<"U+2CC6", <<"U+2CC7">>>>, <<"U+2CC8", <<"U+2CC9">>>>,
      <<"U+2CCA", <<"U+2CCB">>>>, <<"U+2CCC", <<"U+2CCD">>>>,
      <<"U+2CCE", <<"U+2CCF">>>>, <<"U+2CD0", <<"U+2CD1">>>>,
      <<"U+2CD2", <<"U+2CD3">>>>, <<"U+2CD4", <<"U+2CD5">>>>,
      <<"U+2CD6", <<"U+2CD7">>>>, <<"U+2CD8", <<"U+2CD9">>>>,
      <<"U+2CDA", <<"U+2CDB">>>>, <<"U+2CDC", <<"U+2CDD">>>>,
      <<"U+2CDE", <<"U+2CDF">>>>, <<"U+2CE0", <<"U+2CE1">>>>,
      <<"U+2CE2", <<"U+2CE3">>>>, <<"U+2CEB", <<"U+2CEC">>>>,
      <<"U+2CED", <<"U+2CEE">>>>, <<"U+2CF2", <<"U+2CF3">>>>,
      <<"U+A640", <<"U+A641">>>>, <<"U+A642", <<"U+A643">>>>,
      <<"U+A644", <<"U+A645">>>>, <<"U+A646", <<"U+A647">>>>,
      <<"U+A648", <<"U+A649">>>>, <<"U+A64A", <<"U+A64B">>>>,
      <<"U+A64C", <<"U+A64D">>>>, <<"U+A64E", <<"U+A64F">>>>,
      <<"U+A650", <<"U+A651">>>>, <<"U+A652", <<"U+A653">>>>,
      <<"U+A654", <<"U+A655">>>>, <<"U+A656", <<"U+A657">>>>,
      <<"U+A658", <<"U+A659">>>>, <<"U+A65A", <<"U+A65B">>>>,
      <<"U+A65C", <<"U+A65D">>>>, <<"U+A65E", <<"U+A65F">>>>,
      <<"U+A660", <<"U+A661">>>>, <<"U+A662", <<"U+A663">>>>,
      <<"U+A664", <<"U+A665">>>>, <<"U+A666", <<"U+A667">>>>,
      <<"U+A668", <<"U+A669">>>>, <<"U+A66A", <<"U+A66B">>>>,
      <<"U+A66C", <<"U+A66D">>>>, <<"U+A680", <<"U+A681">>>>,
      <<"U+A682", <<"U+A683">>>>, <<"U+A684", <<"U+A685">>>>,
      <<"U+A686", <<"U+A687">>>>, <<"U+A688", <<"U+A689">>>>,
      <<"U+A68A", <<"U+A68B">>>>, <<"U+A68C", <<"U+A68D">>>>,
      <<"U+A68E", <<"U+A68F">>>>, <<"U+A690", <<"U+A691">>>>,
      <<"U+A692", <<"U+A693">>>>, <<"U+A694", <<"U+A695">>>>,
      <<"U+A696", <<"U+A697">>>>, <<"U+A698", <<"U+A699">>>>,
      <<"U+A69A", <<"U+A69B">>>>, <<"U+A722", <<"U+A723">>>>,
      <<"U+A724", <<"U+A725">>>>, <<"U+A726", <<"U+A727">>>>,
      <<"U+A728", <<"U+A729">>>>, <<"U+A72A", <<"U+A72B">>>>,
      <<"U+A72C", <<"U+A72D">>>>, <<"U+A72E", <<"U+A72F">>>>,
      <<"U+A732", <<"U+A733">>>>, <<"U+A734", <<"U+A735">>>>,
      <<"U+A736", <<"U+A737">>>>, <<"U+A738", <<"U+A739">>>>,
      <<"U+A73A", <<"U+A73B">>>>, <<"U+A73C", <<"U+A73D">>>>,
      <<"U+A73E", <<"U+A73F">>>>, <<"U+A740", <<"U+A741">>>>,
      <<"U+A742", <<"U+A743">>>>, <<"U+A744", <<"U+A745">>>>,
      <<"U+A746", <<"U+A747">>>>, <<"U+A748", <<"U+A749">>>>,
      <<"U+A74A", <<"U+A74B">>>>, <<"U+A74C", <<"U+A74D">>>>,
      <<"U+A74E", <<"U+A74F">>>>, <<"U+A750", <<"U+A751">>>>,
      <<"U+A752", <<"U+A753">>>>, <<"U+A754", <<"U+A755">>>>,
      <<"U+A756", <<"U+A757">>>>, <<"U+A758", <<"U+A759">>>>,
      <<"U+A75A", <<"U+A75B">>>>, <<"U+A75C", <<"U+A75D">>>>,
      <<"U+A75E", <<"U+A75F">>>>, <<"U+A760", <<"U+A761">>>>,
      <<"U+A762", <<"U+A763">>>>, <<"U+A764", <<"U+A765">>>>,
      <<"U+A766", <<"U+A767">>>>, <<"U+A768", <<"U+A769">>>>,
      <<"U+A76A", <<"U+A76B">>>>, <<"U+A76C", <<"U+A76D">>>>,
      <<"U+A76E", <<"U+A76F">>>>, <<"U+A779", <<"U+A77A">>>>,
      <<"U+A77B", <<"U+A77C">>>>, <<"U+A77D", <<"U+1D79">>>>,
      <<"U+A77E", <<"U+A77F">>>>, <<"U+A780", <<"U+A781">>>>,
      <<"U+A782", <<"U+A783">>>>, <<"U+A784", <<"U+A785">>>>,
      <<"U+A786", <<"U+A787">>>>, <<"U+A78B", <<"U+A78C">>>>,
      <<"U+A78D", <<"U+0265">>>>, <<"U+A790", <<"U+A791">>>>,
      <<"U+A792", <<"U+A793">>>>, <<"U+A796", <<"U+A797">>>>,
      <<"U+A798", <<"U+A799">>>>, <<"U+A79A", <<"U+A79B">>>>,
      <<"U+A79C", <<"U+A79D">>>>, <<"U+A79E", <<"U+A79F">>>>,
      <<"U+A7A0", <<"U+A7A1">>>>, <<"U+A7A2", <<"U+A7A3">>>>,
      <<"U+A7A4", <<"U+A7A5">>>>, <<"U+A7A6", <<"U+A7A7">>>>,
      <<"U+A7A8", <<"U+A7A9">>>>, <<"U+A7AA", <<"U+0266">>>>,
      <<"U+A7AB", <<"U+025C">>>>, <<"U+A7AC", <<"U+0261">>>>,
      <<"U+A7AD", <<"U+026C">>>>, <<"U+A7AE", <<"U+026A">>>>,
      <<"U+A7B0", <<"U+029E">>>>, <<"U+A7B1", <<"U+0287">>>>,
      <<"U+A7B2", <<"U+029D">>>>, <<"U+A7B3", <<"U+AB53">>>>,
      <<"U+A7B4", <<"U+A7B5">>>>, <<"U+A7B6", <<"U+A7B7">>>>,
      <<"U+A7B8", <<"U+A7B9">>>>, <<"U+A7BA", <<"U+A7BB">>>>,
      <<"U+A7BC", <<"U+A7BD">>>>, <<"U+A7BE", <<"U+A7BF">>>>,
      <<"U+A7C0", <<"U+A7C1">>>>, <<"U+A7C2", <<"U+A7C3">>>>,
      <<"U+A7C4", <<"U+A794">>>>, <<"U+A7C5", <<"U+0282">>>>,
      <<"U+A7C6", <<"U+1D8E">>>>, <<"U+A7C7", <<"U+A7C8">>>>,
      <<"U+A7C9", <<"U+A7CA">>>>, <<"U+A7D0", <<"U+A7D1">>>>,
      <<"U+A7D6", <<"U+A7D7">>>>, <<"U+A7D8", <<"U+A7D9">>>>,
      <<"U+A7F5", <<"U+A7F6">>>>, <<"U+FF21", <<"U+FF41">>>>,
      <<"U+FF22", <<"U+FF42">>>>, <<"U+FF23", <<"U+FF43">>>>,
      <<"U+FF24", <<"U+FF44">>>>, <<"U+FF25", <<"U+FF45">>>>,
      <<"U+FF26", <<"U+FF46">>>>, <<"U+FF27", <<"U+FF47">>>>,
      <<"U+FF28", <<"U+FF48">>>>, <<"U+FF29", <<"U+FF49">>>>,
      <<"U+FF2A", <<"U+FF4A">>>>, <<"U+FF2B", <<"U+FF4B">>>>,
      <<"U+FF2C", <<"U+FF4C">>>>, <<"U+FF2D", <<"U+FF4D">>>>,
      <<"U+FF2E", <<"U+FF4E">>>>, <<"U+FF2F", <<"U+FF4F">>>>,
      <<"U+FF30", <<"U+FF50">>>>, <<"U+FF31", <<"U+FF51">>>>,
      <<"U+FF32", <<"U+FF52">>>>, <<"U+FF33", <<"U+FF53">>>>,
      <<"U+FF34", <<"U+FF54">>>>, <<"U+FF35", <<"U+FF55">>>>,
      <<"U+FF36", <<"U+FF56">>>>, <<"U+FF37", <<"U+FF57">>>>,
      <<"U+FF38", <<"U+FF58">>>>, <<"U+FF39", <<"U+FF59">>>>,
      <<"U+FF3A", <<"U+FF5A">>>>, <<"U+10400", <<"U+10428">>>>,
      <<"U+10401", <<"U+10429">>>>, <<"U+10402", <<"U+1042A">>>>,
      <<"U+10403", <<"U+1042B">>>>, <<"U+10404", <<"U+1042C">>>>,
      <<"U+10405", <<"U+1042D">>>>, <<"U+10406", <<"U+1042E">>>>,
      <<"U+10407", <<"U+1042F">>>>, <<"U+10408", <<"U+10430">>>>,
      <<"U+10409", <<"U+10431">>>>, <<"U+1040A", <<"U+10432">>>>,
      <<"U+1040B", <<"U+10433">>>>, <<"U+1040C", <<"U+10434">>>>,
      <<"U+1040D", <<"U+10435">>>>, <<"U+1040E", <<"U+10436">>>>,
      <<"U+1040F", <<"U+10437">>>>, <<"U+10410", <<"U+10438">>>>,
      <<"U+10411", <<"U+10439">>>>, <<"U+10412", <<"U+1043A">>>>,
      <<"U+10413", <<"U+1043B">>>>, <<"U+10414", <<"U+1043C">>>>,
      <<"U+10415", <<"U+1043D">>>>, <<"U+10416", <<"U+1043E">>>>,
      <<"U+10417", <<"U+1043F">>>>, <<"U+10418", <<"U+10440">>>>,
      <<"U+10419", <<"U+10441">>>>, <<"U+1041A", <<"U+10442">>>>,
      <<"U+1041B", <<"U+10443">>>>, <<"U+1041C", <<"U+10444">>>>,
      <<"U+1041D", <<"U+10445">>>>, <<"U+1041E", <<"U+10446">>>>,
      <<"U+1041F", <<"U+10447">>>>, <<"U+10420", <<"U+10448">>>>,
      <<"U+10421", <<"U+10449">>>>, <<"U+10422", <<"U+1044A">>>>,
      <<"U+10423", <<"U+1044B">>>>, <<"U+10424", <<"U+1044C">>>>,
      <<"U+10425", <<"U+1044D">>>>, <<"U+10426", <<"U+1044E">>>>,
      <<"U+10427", <<"U+1044F">>>>, <<"U+104B0", <<"U+104D8">>>>,
      <<"U+104B1", <<"U+104D9">>>>, <<"U+104B2", <<"U+104DA">>>>,
      <<"U+104B3", <<"U+104DB">>>>, <<"U+104B4", <<"U+104DC">>>>,
      <<"U+104B5", <<"U+104DD">>>>, <<"U+104B6", <<"U+104DE">>>>,
      <<"U+104B7", <<"U+104DF">>>>, <<"U+104B8", <<"U+104E0">>>>,
      <<"U+104B9", <<"U+104E1">>>>, <<"U+104BA", <<"U+104E2">>>>,
      <<"U+104BB", <<"U+104E3">>>>, <<"U+104BC", <<"U+104E4">>>>,
      <<"U+104BD", <<"U+104E5">>>>, <<"U+104BE", <<"U+104E6">>>>,
      <<"U+104BF", <<"U+104E7">>>>, <<"U+104C0", <<"U+104E8">>>>,
      <<"U+104C1", <<"U+104E9">>>>, <<"U+104C2", <<"U+104EA">>>>,
      <<"U+104C3", <<"U+104EB">>>>, <<"U+104C4", <<"U+104EC">>>>,
      <<"U+104C5", <<"U+104ED">>>>, <<"U+104C6", <<"U+104EE">>>>,
      <<"U+104C7", <<"U+104EF">>>>, <<"U+104C8", <<"U+104F0">>>>,
      <<"U+104C9", <<"U+104F1">>>>, <<"U+104CA", <<"U+104F2">>>>,
      <<"U+104CB", <<"U+104F3">>>>, <<"U+104CC", <<"U+104F4">>>>,
      <<"U+104CD", <<"U+104F5">>>>, <<"U+104CE", <<"U+104F6">>>>,
      <<"U+104CF", <<"U+104F7">>>>, <<"U+104D0", <<"U+104F8">>>>,
      <<"U+104D1", <<"U+104F9">>>>, <<"U+104D2", <<"U+104FA">>>>,
      <<"U+104D3", <<"U+104FB">>>>, <<"U+10570", <<"U+10597">>>>,
      <<"U+10571", <<"U+10598">>>>, <<"U+10572", <<"U+10599">>>>,
      <<"U+10573", <<"U+1059A">>>>, <<"U+10574", <<"U+1059B">>>>,
      <<"U+10575", <<"U+1059C">>>>, <<"U+10576", <<"U+1059D">>>>,
      <<"U+10577", <<"U+1059E">>>>, <<"U+10578", <<"U+1059F">>>>,
      <<"U+10579", <<"U+105A0">>>>, <<"U+1057A", <<"U+105A1">>>>,
      <<"U+1057C", <<"U+105A3">>>>, <<"U+1057D", <<"U+105A4">>>>,
      <<"U+1057E", <<"U+105A5">>>>, <<"U+1057F", <<"U+105A6">>>>,
      <<"U+10580", <<"U+105A7">>>>, <<"U+10581", <<"U+105A8">>>>,
      <<"U+10582", <<"U+105A9">>>>, <<"U+10583", <<"U+105AA">>>>,
      <<"U+10584", <<"U+105AB">>>>, <<"U+10585", <<"U+105AC">>>>,
      <<"U+10586", <<"U+105AD">>>>, <<"U+10587", <<"U+105AE">>>>,
      <<"U+10588", <<"U+105AF">>>>, <<"U+10589", <<"U+105B0">>>>,
      <<"U+1058A", <<"U+105B1">>>>, <<"U+1058C", <<"U+105B3">>>>,
      <<"U+1058D", <<"U+105B4">>>>, <<"U+1058E", <<"U+105B5">>>>,
      <<"U+1058F", <<"U+105B6">>>>, <<"U+10590", <<"U+105B7">>>>,
      <<"U+10591", <<"U+105B8">>>>, <<"U+10592", <<"U+105B9">>>>,
      <<"U+10594", <<"U+105BB">>>>, <<"U+10595", <<"U+105BC">>>>,
      <<"U+10C80", <<"U+10CC0">>>>, <<"U+10C81", <<"U+10CC1">>>>,
      <<"U+10C82", <<"U+10CC2">>>>, <<"U+10C83", <<"U+10CC3">>>>,
      <<"U+10C84", <<"U+10CC4">>>>, <<"U+10C85", <<"U+10CC5">>>>,
      <<"U+10C86", <<"U+10CC6">>>>, <<"U+10C87", <<"U+10CC7">>>>,
      <<"U+10C88", <<"U+10CC8">>>>, <<"U+10C89", <<"U+10CC9">>>>,
      <<"U+10C8A", <<"U+10CCA">>>>, <<"U+10C8B", <<"U+10CCB">>>>,
      <<"U+10C8C", <<"U+10CCC">>>>, <<"U+10C8D", <<"U+10CCD">>>>,
      <<"U+10C8E", <<"U+10CCE">>>>, <<"U+10C8F", <<"U+10CCF">>>>,
      <<"U+10C90", <<"U+10CD0">>>>, <<"U+10C91", <<"U+10CD1">>>>,
      <<"U+10C92", <<"U+10CD2">>>>, <<"U+10C93", <<"U+10CD3">>>>,
      <<"U+10C94", <<"U+10CD4">>>>, <<"U+10C95", <<"U+10CD5">>>>,
      <<"U+10C96", <<"U+10CD6">>>>, <<"U+10C97", <<"U+10CD7">>>>,
      <<"U+10C98", <<"U+10CD8">>>>, <<"U+10C99", <<"U+10CD9">>>>,
      <<"U+10C9A", <<"U+10CDA">>>>, <<"U+10C9B", <<"U+10CDB">>>>,
      <<"U+10C9C", <<"U+10CDC">>>>, <<"U+10C9D", <<"U+10CDD">>>>,
      <<"U+10C9E", <<"U+10CDE">>>>, <<"U+10C9F", <<"U+10CDF">>>>,
      <<"U+10CA0", <<"U+10CE0">>>>, <<"U+10CA1", <<"U+10CE1">>>>,
      <<"U+10CA2", <<"U+10CE2">>>>, <<"U+10CA3", <<"U+10CE3">>>>,
      <<"U+10CA4", <<"U+10CE4">>>>, <<"U+10CA5", <<"U+10CE5">>>>,
      <<"U+10CA6", <<"U+10CE6">>>>, <<"U+10CA7", <<"U+10CE7">>>>,
      <<"U+10CA8", <<"U+10CE8">>>>, <<"U+10CA9", <<"U+10CE9">>>>,
      <<"U+10CAA", <<"U+10CEA">>>>, <<"U+10CAB", <<"U+10CEB">>>>,
      <<"U+10CAC", <<"U+10CEC">>>>, <<"U+10CAD", <<"U+10CED">>>>,
      <<"U+10CAE", <<"U+10CEE">>>>, <<"U+10CAF", <<"U+10CEF">>>>,
      <<"U+10CB0", <<"U+10CF0">>>>, <<"U+10CB1", <<"U+10CF1">>>>,
      <<"U+10CB2", <<"U+10CF2">>>>, <<"U+118A0", <<"U+118C0">>>>,
      <<"U+118A1", <<"U+118C1">>>>, <<"U+118A2", <<"U+118C2">>>>,
      <<"U+118A3", <<"U+118C3">>>>, <<"U+118A4", <<"U+118C4">>>>,
      <<"U+118A5", <<"U+118C5">>>>, <<"U+118A6", <<"U+118C6">>>>,
      <<"U+118A7", <<"U+118C7">>>>, <<"U+118A8", <<"U+118C8">>>>,
      <<"U+118A9", <<"U+118C9">>>>, <<"U+118AA", <<"U+118CA">>>>,
      <<"U+118AB", <<"U+118CB">>>>, <<"U+118AC", <<"U+118CC">>>>,
      <<"U+118AD", <<"U+118CD">>>>, <<"U+118AE", <<"U+118CE">>>>,
      <<"U+118AF", <<"U+118CF">>>>, <<"U+118B0", <<"U+118D0">>>>,
      <<"U+118B1", <<"U+118D1">>>>, <<"U+118B2", <<"U+118D2">>>>,
      <<"U+118B3", <<"U+118D3">>>>, <<"U+118B4", <<"U+118D4">>>>,
      <<"U+118B5", <<"U+118D5">>>>, <<"U+118B6", <<"U+118D6">>>>,
      <<"U+118B7", <<"U+118D7">>>>, <<"U+118B8", <<"U+118D8">>>>,
      <<"U+118B9", <<"U+118D9">>>>, <<"U+118BA", <<"U+118DA">>>>,
      <<"U+118BB", <<"U+118DB">>>>, <<"U+118BC", <<"U+118DC">>>>,
      <<"U+118BD", <<"U+118DD">>>>, <<"U+118BE", <<"U+118DE">>>>,
      <<"U+118BF", <<"U+118DF">>>>, <<"U+16E40", <<"U+16E60">>>>,
      <<"U+16E41", <<"U+16E61">>>>, <<"U+16E42", <<"U+16E62">>>>,
      <<"U+16E43", <<"U+16E63">>>>, <<"U+16E44", <<"U+16E64">>>>,
      <<"U+16E45", <<"U+16E65">>>>, <<"U+16E46", <<"U+16E66">>>>,
      <<"U+16E47", <<"U+16E67">>>>, <<"U+16E48", <<"U+16E68">>>>,
      <<"U+16E49", <<"U+16E69">>>>, <<"U+16E4A", <<"U+16E6A">>>>,
      <<"U+16E4B", <<"U+16E6B">>>>, <<"U+16E4C", <<"U+16E6C">>>>,
      <<"U+16E4D", <<"U+16E6D">>>>, <<"U+16E4E", <<"U+16E6E">>>>,
      <<"U+16E4F", <<"U+16E6F">>>>, <<"U+16E50", <<"U+16E70">>>>,
      <<"U+16E51", <<"U+16E71">>>>, <<"U+16E52", <<"U+16E72">>>>,
      <<"U+16E53", <<"U+16E73">>>>, <<"U+16E54", <<"U+16E74">>>>,
      <<"U+16E55", <<"U+16E75">>>>, <<"U+16E56", <<"U+16E76">>>>,
      <<"U+16E57", <<"U+16E77">>>>, <<"U+16E58", <<"U+16E78">>>>,
      <<"U+16E59", <<"U+16E79">>>>, <<"U+16E5A", <<"U+16E7A">>>>,
      <<"U+16E5B", <<"U+16E7B">>>>, <<"U+16E5C", <<"U+16E7C">>>>,
      <<"U+16E5D", <<"U+16E7D">>>>, <<"U+16E5E", <<"U+16E7E">>>>,
      <<"U+16E5F", <<"U+16E7F">>>>, <<"U+1E900", <<"U+1E922">>>>,
      <<"U+1E901", <<"U+1E923">>>>, <<"U+1E902", <<"U+1E924">>>>,
      <<"U+1E903", <<"U+1E925">>>>, <<"U+1E904", <<"U+1E926">>>>,
      <<"U+1E905", <<"U+1E927">>>>, <<"U+1E906", <<"U+1E928">>>>,
      <<"U+1E907", <<"U+1E929">>>>, <<"U+1E908", <<"U+1E92A">>>>,
      <<"U+1E909", <<"U+1E92B">>>>, <<"U+1E90A", <<"U+1E92C">>>>,
      <<"U+1E90B", <<"U+1E92D">>>>, <<"U+1E90C", <<"U+1E92E">>>>,
      <<"U+1E90D", <<"U+1E92F">>>>, <<"U+1E90E", <<"U+1E930">>>>,
      <<"U+1E90F", <<"U+1E931">>>>, <<"U+1E910", <<"U+1E932">>>>,
      <<"U+1E911", <<"U+1E933">>>>, <<"U+1E912", <<"U+1E934">>>>,
      <<"U+1E913", <<"U+1E935">>>>, <<"U+1E914", <<"U+1E936">>>>,
      <<"U+1E915", <<"U+1E937">>>>, <<"U+1E916", <<"U+1E938">>>>,
      <<"U+1E917", <<"U+1E939">>>>, <<"U+1E918", <<"U+1E93A">>>>,
      <<"U+1E919", <<"U+1E93B">>>>, <<"U+1E91A", <<"U+1E93C">>>>,
      <<"U+1E91B", <<"U+1E93D">>>>, <<"U+1E91C", <<"U+1E93E">>>>,
      <<"U+1E91D", <<"U+1E93F">>>>, <<"U+1E91E", <<"U+1E940">>>>,
      <<"U+1E91F", <<"U+1E941">>>>, <<"U+1E920", <<"U+1E942">>>>,
      <<"U+1E921", <<"U+1E943">>>> >>

\* the characters str.lower() changes
UpperChars == {LowerPairs[i][1] : i \in DOMAIN LowerPairs}

LowerMap ==
    [c \in UpperChars |->
        LowerPairs[CHOOSE i \in DOMAIN LowerPairs : LowerPairs[i][1] = c][2]]

\* str.lower() on a string of one character: a string of one or two
\* characters
LowerChar(c) == IF c \in UpperChars THEN LowerMap[c] ELSE <<c>>

\* the characters str.lower() skips when it looks for the cased letters
\* around a capital sigma
CaseIgnorable ==
    { "'", ".", ":", "^", "U+0060", "¨", "­", "U+00AD", "¯", "´", "·", "¸",
      "U+02B0", "U+02B1", "U+02B2", "U+02B3", "U+02B4", "U+02B5", "U+02B6",
      "U+02B7", "U+02B8", "U+02B9", "U+02BA", "U+02BB", "U+02BC", "U+02BD",
      "U+02BE", "U+02BF", "U+02C0", "U+02C1", "U+02C2", "U+02C3", "U+02C4",
      "U+02C5", "U+02C6", "U+02C7", "U+02C8", "U+02C9", "U+02CA", "U+02CB",
      "U+02CC", "U+02CD", "U+02CE", "U+02CF", "U+02D0", "U+02D1", "U+02D2",
      "U+02D3", "U+02D4", "U+02D5", "U+02D6", "U+02D7", "U+02D8", "U+02D9",
      "U+02DA", "U+02DB", "U+02DC", "U+02DD", "U+02DE", "U+02DF", "U+02E0",
      "U+02E1", "U+02E2", "U+02E3", "U+02E4", "U+02E5", "U+02E6", "U+02E7",
      "U+02E8", "U+02E9", "U+02EA", "U+02EB", "U+02EC", "U+02ED", "U+02EE",
      "U+02EF", "U+02F0", "U+02F1", "U+02F2", "U+02F3", "U+02F4", "U+02F5",
      "U+02F6", "U+02F7", "U+02F8", "U+02F9", "U+02FA", "U+02FB", "U+02FC",
      "U+02FD", "U+02FE", "U+02FF", "U+0300", "U+0301", "U+0302", "U+0303",
      "U+0304", "U+0305", "U+0306", "U+0307", "combining-diaeresis",
      "U+0309", "U+030A", "U+030B", "U+030C", "U+030D", "U+030E", "U+030F",
      "U+0310", "U+0311", "U+0312", "U+0313", "U+0314", "U+0315", "U+0316",
      "U+0317", "U+0318", "U+0319", "U+031A", "U+031B", "U+031C", "U+031D",
      "U+031E", "U+031F", "U+0320", "U+0321", "U+0322", "U+0323", "U+0324",
      "U+0325", "U+0326", "U+0327", "U+0328", "U+0329", "U+032A", "U+032B",
      "U+032C", "U+032D", "U+032E", "U+032F", "U+0330", "U+0331", "U+0332",
      "U+0333", "U+0334", "U+0335", "U+0336", "U+0337", "U+0338", "U+0339",
      "U+033A", "U+033B", "U+033C", "U+033D", "U+033E", "U+033F", "U+0340",
      "U+0341", "U+0342", "U+0343", "U+0344", "U+0345", "U+0346", "U+0347",
      "U+0348", "U+0349", "U+034A", "U+034B", "U+034C", "U+034D", "U+034E",
      "U+034F", "U+0350", "U+0351", "U+0352", "U+0353", "U+0354", "U+0355",
      "U+0356", "U+0357", "U+0358", "U+0359", "U+035A", "U+035B", "U+035C",
      "U+035D", "U+035E", "U+035F", "U+0360", "U+0361", "U+0362", "U+0363",
      "U+0364", "U+0365", "U+0366", "U+0367", "U+0368", "U+0369", "U+036A",
      "U+036B", "U+036C", "U+036D", "U+036E", "U+036F", "U+0374", "U+0375",
      "U+037A", "U+0384", "U+0385", "U+0387", "U+0483", "U+0484", "U+0485",
      "U+0486", "U+0487", "U+0488", "U+0489", "U+0559", "U+055F", "U+0591",
      "U+0592", "U+0593", "U+0594", "U+0595", "U+0596", "U+0597", "U+0598",
      "U+0599", "U+059A", "U+059B", "U+059C", "U+059D", "U+059E", "U+059F",
      "U+05A0", "U+05A1", "U+05A2", "U+05A3", "U+05A4", "U+05A5", "U+05A6",
      "U+05A7", "U+05A8", "U+05A9", "U+05AA", "U+05AB", "U+05AC", "U+05AD",
      "U+05AE", "U+05AF", "U+05B0", "U+05B1", "U+05B2", "U+05B3", "U+05B4",
      "U+05B5", "U+05B6", "U+05B7", "U+05B8", "U+05B9", "U+05BA", "U+05BB",
      "U+05BC", "U+05BD", "U+05BF", "U+05C1", "U+05C2", "U+05C4", "U+05C5",
      "U+05C7", "U+05F4", "U+0600", "U+0601", "U+0602", "U+0603", "U+0604",
      "U+0605", "U+0610", "U+0611", "U+0612", "U+0613", "U+0614", "U+0615",
      "U+0616", "U+0617", "U+0618", "U+0619", "U+061A", "U+061C", "U+0640",
      "U+064B", "U+064C", "U+064D", "U+064E", "U+064F", "U+0650", "U+0651",
      "U+0652", "U+0653", "U+0654", "U+0655", "U+0656", "U+0657", "U+0658",
      "U+0659", "U+065A", "U+065B", "U+065C", "U+065D", "U+065E", "U+065F",
      "U+0670", "U+06D6", "U+06D7", "U+06D8", "U+06D9", "U+06DA", "U+06DB",
      "U+06DC", "U+06DD", "U+06DF", "U+06E0", "U+06E1", "U+06E2", "U+06E3",
      "U+06E4", "U+06E5", "U+06E6", "U+06E7", "U+06E8", "U+06EA", "U+06EB",
      "U+06EC", "U+06ED", "U+070F", "U+0711", "U+0730", "U+0731", "U+0732",
      "U+0733", "U+0734", "U+0735", "U+0736", "U+0737", "U+0738", "U+0739",
      "U+073A", "U+073B", "U+073C", "U+073D", "U+073E", "U+073F", "U+0740",
      "U+0741", "U+0742", "U+0743", "U+0744", "U+0745", "U+0746", "U+0747",
      "U+0748", "U+0749", "U+074A", "U+07A6", "U+07A7", "U+07A8", "U+07A9",
      "U+07AA", "U+07AB", "U+07AC", "U+07AD", "U+07AE", "U+07AF", "U+07B0",
      "U+07EB", "U+07EC", "U+07ED", "U+07EE", "U+07EF", "U+07F0", "U+07F1",
      "U+07F2", "U+07F3", "U+07F4", "U+07F5", "U+07FA", "U+07FD", "U+0816",
      "U+0817", "U+0818", "U+0819", "U+081A", "U+081B", "U+081C", "U+081D",
      "U+081E", "U+081F", "U+0820", "U+0821", "U+0822", "U+0823", "U+0824",
      "U+0825", "U+0826", "U+0827", "U+0828", "U+0829", "U+082A", "U+082B",
      "U+082C", "U+082D", "U+0859", "U+085A", "U+085B", "U+0888", "U+0890",
      "U+0891", "U+0898", "U+0899", "U+089A", "U+089B", "U+089C", "U+089D",
      "U+089E", "U+089F", "U+08C9", "U+08CA", "U+08CB", "U+08CC", "U+08CD",
      "U+08CE", "U+08CF", "U+08D0", "U+08D1", "U+08D2", "U+08D3", "U+08D4",
      "U+08D5", "U+08D6", "U+08D7", "U+08D8", "U+08D9", "U+08DA", "U+08DB",
      "U+08DC", "U+08DD", "U+08DE", "U+08DF", "U+08E0", "U+08E1", "U+08E2",
      "U+08E3", "U+08E4", "U+08E5", "U+08E6", "U+08E7", "U+08E8", "U+08E9",
      "U+08EA", "U+08EB", "U+08EC", "U+08ED", "U+08EE", "U+08EF", "U+08F0",
      "U+08F1", "U+08F2", "U+08F3", "U+08F4", "U+08F5", "U+08F6", "U+08F7",
      "U+08F8", "U+08F9", "U+08FA", "U+08FB", "U+08FC", "U+08FD", "U+08FE",
      "U+08FF", "U+0900", "U+0901", "U+0902", "U+093A", "U+093C", "U+0941",
      "U+0942", "U+0943", "U+0944", "U+0945", "U+0946", "U+0947", "U+0948",
      "U+094D", "U+0951", "U+0952", "U+0953", "U+0954", "U+0955", "U+0956",
      "U+0957", "U+0962", "U+0963", "U+0971", "U+0981", "U+09BC", "U+09C1",
      "U+09C2", "U+09C3", "U+09C4", "U+09CD", "U+09E2", "U+09E3", "U+09FE",
      "U+0A01", "U+0A02", "U+0A3C", "U+0A41", "U+0A42", "U+0A47", "U+0A48",
      "U+0A4B", "U+0A4C", "U+0A4D", "U+0A51", "U+0A70", "U+0A71", "U+0A75",
      "U+0A81", "U+0A82", "U+0ABC", "U+0AC1", "U+0AC2", "U+0AC3", "U+0AC4",
      "U+0AC5", "U+0AC7", "U+0AC8", "U+0ACD", "U+0AE2", "U+0AE3", "U+0AFA",
      "U+0AFB", "U+0AFC", "U+0AFD", "U+0AFE", "U+0AFF", "U+0B01", "U+0B3C",
      "U+0B3F", "U+0B41", "U+0B42", "U+0B43", "U+0B44", "U+0B4D", "U+0B55",
      "U+0B56", "U+0B62", "U+0B63", "U+0B82", "U+0BC0", "U+0BCD", "U+0C00",
      "U+0C04", "U+0C3C", "U+0C3E", "U+0C3F", "U+0C40", "U+0C46", "U+0C47",
      "U+0C48", "U+0C4A", "U+0C4B", "U+0C4C", "U+0C4D", "U+0C55", "U+0C56",
      "U+0C62", "U+0C63", "U+0C81", "U+0CBC", "U+0CBF", "U+0CC6", "U+0CCC",
      "U+0CCD", "U+0CE2", "U+0CE3", "U+0D00", "U+0D01", "U+0D3B", "U+0D3C",
      "U+0D41", "U+0D42", "U+0D43", "U+0D44", "U+0D4D", "U+0D62", "U+0D63",
      "U+0D81", "U+0DCA", "U+0DD2", "U+0DD3", "U+0DD4", "U+0DD6", "U+0E31",
      "U+0E34", "U+0E35", "U+0E36", "U+0E37", "U+0E38", "U+0E39", "U+0E3A",
      "U+0E46", "U+0E47", "U+0E48", "U+0E49", "U+0E4A", "U+0E4B", "U+0E4C",
      "U+0E4D", "U+0E4E", "U+0EB1", "U+0EB4", "U+0EB5", "U+0EB6", "U+0EB7",
      "U+0EB8", "U+0EB9", "U+0EBA", "U+0EBB", "U+0EBC", "U+0EC6", "U+0EC8",
      "U+0EC9", "U+0ECA", "U+0ECB", "U+0ECC", "U+0ECD", "U+0F18", "U+0F19",
      "U+0F35", "U+0F37", "U+0F39", "U+0F71", "U+0F72", "U+0F73", "U+0F74",
      "U+0F75", "U+0F76", "U+0F77", "U+0F78", "U+0F79", "U+0F7A", "U+0F7B",
      "U+0F7C", "U+0F7D", "U+0F7E", "U+0F80", "U+0F81", "U+0F82", "U+0F83",
      "U+0F84", "U+0F86", "U+0F87", "U+0F8D", "U+0F8E", "U+0F8F", "U+0F90",
      "U+0F91", "U+0F92", "U+0F93", "U+0F94", "U+0F95", "U+0F96", "U+0F97",
      "U+0F99", "U+0F9A", "U+0F9B", "U+0F9C", "U+0F9D", "U+0F9E", "U+0F9F",
      "U+0FA0", "U+0FA1", "U+0FA2", "U+0FA3", "U+0FA4", "U+0FA5", "U+0FA6",
      "U+0FA7", "U+0FA8", "U+0FA9", "U+0FAA", "U+0FAB", "U+0FAC", "U+0FAD",
      "U+0FAE", "U+0FAF", "U+0FB0", "U+0FB1", "U+0FB2", "U+0FB3", "U+0FB4",
      "U+0FB5", "U+0FB6", "U+0FB7", "U+0FB8", "U+0FB9", "U+0FBA", "U+0FBB",
      "U+0FBC", "U+0FC6", "U+102D", "U+102E", "U+102F", "U+1030", "U+1032",
      "U+1033", "U+1034", "U+1035", "U+1036", "U+1037", "U+1039", "U+103A",
      "U+103D", "U+103E", "U+1058", "U+1059", "U+105E", "U+105F", "U+1060",
      "U+1071", "U+1072", "U+1073", "U+1074", "U+1082", "U+1085", "U+1086",
      "U+108D", "U+109D", "U+10FC", "U+135D", "U+135E", "U+135F", "U+1712",
      "U+1713", "U+1714", "U+1732", "U+1733", "U+1752", "U+1753", "U+1772",
      "U+1773", "U+17B4", "U+17B5", "U+17B7", "U+17B8", "U+17B9", "U+17BA",
      "U+17BB", "U+17BC", "U+17BD", "U+17C6", "U+17C9", "U+17CA", "U+17CB",
      "U+17CC", "U+17CD", "U+17CE", "U+17CF", "U+17D0", "U+17D1", "U+17D2",
      "U+17D3", "U+17D7", "U+17DD", "U+180B", "U+180C", "U+180D", "U+180E",
      "U+180F", "U+1843", "U+1885", "U+1886", "U+18A9", "U+1920", "U+1921",
      "U+1922", "U+1927", "U+1928", "U+1932", "U+1939", "U+193A", "U+193B",
      "U+1A17", "U+1A18", "U+1A1B", "U+1A56", "U+1A58", "U+1A59", "U+1A5A",
      "U+1A5B", "U+1A5C", "U+1A5D", "U+1A5E", "U+1A60", "U+1A62", "U+1A65",
      "U+1A66", "U+1A67", "U+1A68", "U+1A69", "U+1A6A", "U+1A6B", "U+1A6C",
      "U+1A73", "U+1A74", "U+1A75", "U+1A76", "U+1A77", "U+1A78", "U+1A79",
      "U+1A7A", "U+1A7B", "U+1A7C", "U+1A7F", "U+1AA7", "U+1AB0", "U+1AB1",
      "U+1AB2", "U+1AB3", "U+1AB4", "U+1AB5", "U+1AB6", "U+1AB7", "U+1AB8",
      "U+1AB9", "U+1ABA", "U+1ABB", "U+1ABC", "U+1ABD", "U+1ABE", "U+1ABF",
      "U+1AC0", "U+1AC1", "U+1AC2", "U+1AC3", "U+1AC4", "U+1AC5", "U+1AC6",
      "U+1AC7", "U+1AC8", "U+1AC9", "U+1ACA", "U+1ACB", "U+1ACC", "U+1ACD",
      "U+1ACE", "U+1B00", "U+1B01", "U+1B02", "U+1B03", "U+1B34", "U+1B36",
      "U+1B37", "U+1B38", "U+1B39", "U+1B3A", "U+1B3C", "U+1B42", "U+1B6B",
      "U+1B6C", "U+1B6D", "U+1B6E", "U+1B6F", "U+1B70", "U+1B71", "U+1B72",
      "U+1B73", "U+1B80", "U+1B81", "U+1BA2", "U+1BA3", "U+1BA4", "U+1BA5",
      "U+1BA8", "U+1BA9", "U+1BAB", "U+1BAC", "U+1BAD", "U+1BE6", "U+1BE8",
      "U+1BE9", "U+1BED", "U+1BEF", "U+1BF0", "U+1BF1", "U+1C2C", "U+1C2D",
      "U+1C2E", "U+1C2F", "U+1C30", "U+1C31", "U+1C32", "U+1C33", "U+1C36",
      "U+1C37", "U+1C78", "U+1C79", "U+1C7A", "U+1C7B", "U+1C7C", "U+1C7D",
      "U+1CD0", "U+1CD1", "U+1CD2", "U+1CD4", "U+1CD5", "U+1CD6", "U+1CD7",
      "U+1CD8", "U+1CD9", "U+1CDA", "U+1CDB", "U+1CDC", "U+1CDD", "U+1CDE",
      "U+1CDF", "U+1CE0", "U+1CE2", "U+1CE3", "U+1CE4", "U+1CE5", "U+1CE6",
      "U+1CE7", "U+1CE8", "U+1CED", "U+1CF4", "U+1CF8", "U+1CF9", "U+1D2C",
      "U+1D2D", "U+1D2E", "U+1D2F", "U+1D30", "U+1D31", "U+1D32", "U+1D33",
      "U+1D34", "U+1D35", "U+1D36", "U+1D37", "U+1D38", "U+1D39", "U+1D3A",
      "U+1D3B", "U+1D3C", "U+1D3D", "U+1D3E", "U+1D3F", "U+1D40", "U+1D41",
      "U+1D42", "U+1D43", "U+1D44", "U+1D45", "U+1D46", "U+1D47", "U+1D48",
      "U+1D49", "U+1D4A", "U+1D4B", "U+1D4C", "U+1D4D", "U+1D4E", "U+1D4F",
      "U+1D50", "U+1D51", "U+1D52", "U+1D53", "U+1D54", "U+1D55", "U+1D56",
      "U+1D57", "U+1D58", "U+1D59", "U+1D5A", "U+1D5B", "U+1D5C", "U+1D5D",
      "U+1D5E", "U+1D5F", "U+1D60", "U+1D61", "U+1D62", "U+1D63", "U+1D64",
      "U+1D65", "U+1D66", "U+1D67", "U+1D68", "U+1D69", "U+1D6A", "U+1D78",
      "U+1D9B", "U+1D9C", "U+1D9D", "U+1D9E", "U+1D9F", "U+1DA0", "U+1DA1",
      "U+1DA2", "U+1DA3", "U+1DA4", "U+1DA5", "U+1DA6", "U+1DA7", "U+1DA8",
      "U+1DA9", "U+1DAA", "U+1DAB", "U+1DAC", "U+1DAD", "U+1DAE", "U+1DAF",
      "U+1DB0", "U+1DB1", "U+1DB2", "U+1DB3", "U+1DB4", "U+1DB5", "U+1DB6",
      "U+1DB7", "U+1DB8", "U+1DB9", "U+1DBA", "U+1DBB", "U+1DBC", "U+1DBD",
      "U+1DBE", "U+1DBF", "U+1DC0", "U+1DC1", "U+1DC2", "U+1DC3", "U+1DC4",
      "U+1DC5", "U+1DC6", "U+1DC7", "U+1DC8", "U+1DC9", "U+1DCA", "U+1DCB",
      "U+1DCC", "U+1DCD", "U+1DCE", "U+1DCF", "U+1DD0", "U+1DD1", "U+1DD2",
      "U+1DD3", "U+1DD4", "U+1DD5", "U+1DD6", "U+1DD7", "U+1DD8", "U+1DD9",
      "U+1DDA", "U+1DDB", "U+1DDC", "U+1DDD", "U+1DDE", "U+1DDF", "U+1DE0",
      "U+1DE1", "U+1DE2", "U+1DE3", "U+1DE4", "U+1DE5", "U+1DE6", "U+1DE7",
      "U+1DE8", "U+1DE9", "U+1DEA", "U+1DEB", "U+1DEC", "U+1DED", "U+1DEE",
      "U+1DEF", "U+1DF0", "U+1DF1", "U+1DF2", "U+1DF3", "U+1DF4", "U+1DF5",
      "U+1DF6", "U+1DF7", "U+1DF8", "U+1DF9", "U+1DFA", "U+1DFB", "U+1DFC",
      "U+1DFD", "U+1DFE", "U+1DFF", "U+1FBD", "U+1FBF", "U+1FC0", "U+1FC1",
      "U+1FCD", "U+1FCE", "U+1FCF", "U+1FDD", "U+1FDE", "U+1FDF", "U+1FED",
      "U+1FEE", "U+1FEF", "U+1FFD", "U+1FFE", "U+200B", "U+200C", "U+200D",
      "U+200E", "U+200F", "U+2018", "U+2019", "U+2024", "U+2027", "U+202A",
      "U+202B", "U+202C", "U+202D", "U+202E", "U+2060", "U+2061", "U+2062",
      "U+2063", "U+2064", "U+2066", "U+2067", "U+2068", "U+2069", "U+206A",
      "U+206B", "U+206C", "U+206D", "U+206E", "U+206F", "U+2071", "U+207F",
      "U+2090", "U+2091", "U+2092", "U+2093", "U+2094", "U+2095", "U+2096",
      "U+2097", "U+2098", "U+2099", "U+209A", "U+209B", "U+209C", "U+20D0",
      "U+20D1", "U+20D2", "U+20D3", "U+20D4", "U+20D5", "U+20D6", "U+20D7",
      "U+20D8", "U+20D9", "U+20DA", "U+20DB", "U+20DC", "U+20DD", "U+20DE",
      "U+20DF", "U+20E0", "U+20E1", "U+20E2", "U+20E3", "U+20E4", "U+20E5",
      "U+20E6", "U+20E7", "U+20E8", "U+20E9", "U+20EA", "U+20EB", "U+20EC",
      "U+20ED", "U+20EE", "U+20EF", "U+20F0", "U+2C7C", "U+2C7D", "U+2CEF",
      "U+2CF0", "U+2CF1", "U+2D6F", "U+2D7F", "U+2DE0", "U+2DE1", "U+2DE2",
      "U+2DE3", "U+2DE4", "U+2DE5", "U+2DE6", "U+2DE7", "U+2DE8", "U+2DE9",
      "U+2DEA", "U+2DEB", "U+2DEC", "U+2DED", "U+2DEE", "U+2DEF", "U+2DF0",
      "U+2DF1", "U+2DF2", "U+2DF3", "U+2DF4", "U+2DF5", "U+2DF6", "U+2DF7",
      "U+2DF8", "U+2DF9", "U+2DFA", "U+2DFB", "U+2DFC", "U+2DFD", "U+2DFE",
      "U+2DFF", "U+2E2F", "U+3005", "U+302A", "U+302B", "U+302C", "U+302D",
      "U+3031", "U+3032", "U+3033", "U+3034", "U+3035", "U+303B", "U+3099",
      "U+309A", "U+309B", "U+309C", "U+309D", "U+309E", "U+30FC", "U+30FD",
      "U+30FE", "U+A015", "U+A4F8", "U+A4F9", "U+A4FA", "U+A4FB", "U+A4FC",
      "U+A4FD", "U+A60C", "U+A66F", "U+A670", "U+A671", "U+A672", "U+A674",
      "U+A675", "U+A676", "U+A677", "U+A678", "U+A679", "U+A67A", "U+A67B",
      "U+A67C", "U+A67D", "U+A67F", "U+A69C", "U+A69D", "U+A69E", "U+A69F",
      "U+A6F0", "U+A6F1", "U+A700", "U+A701", "U+A702", "U+A703", "U+A704",
      "U+A705", "U+A706", "U+A707", "U+A708", "U+A709", "U+A70A", "U+A70B",
      "U+A70C", "U+A70D", "U+A70E", "U+A70F", "U+A710", "U+A711", "U+A712",
      "U+A713", "U+A714", "U+A715", "U+A716", "U+A717", "U+A718", "U+A719",
      "U+A71A", "U+A71B", "U+A71C", "U+A71D", "U+A71E", "U+A71F", "U+A720",
      "U+A721", "U+A770", "U+A788", "U+A789", "U+A78A", "U+A7F2", "U+A7F3",
      "U+A7F4", "U+A7F8", "U+A7F9", "U+A802", "U+A806", "U+A80B", "U+A825",
      "U+A826", "U+A82C", "U+A8C4", "U+A8C5", "U+A8E0", "U+A8E1", "U+A8E2",
      "U+A8E3", "U+A8E4", "U+A8E5", "U+A8E6", "U+A8E7", "U+A8E8", "U+A8E9",
      "U+A8EA", "U+A8EB", "U+A8EC", "U+A8ED", "U+A8EE", "U+A8EF", "U+A8F0",
      "U+A8F1", "U+A8FF", "U+A926", "U+A927", "U+A928", "U+A929", "U+A92A",
      "U+A92B", "U+A92C", "U+A92D", "U+A947", "U+A948", "U+A949", "U+A94A",
      "U+A94B", "U+A94C", "U+A94D", "U+A94E", "U+A94F", "U+A950", "U+A951",
      "U+A980", "U+A981", "U+A982", "U+A9B3", "U+A9B6", "U+A9B7", "U+A9B8",
      "U+A9B9", "U+A9BC", "U+A9BD", "U+A9CF", "U+A9E5", "U+A9E6", "U+AA29",
      "U+AA2A", "U+AA2B", "U+AA2C", "U+AA2D", "U+AA2E", "U+AA31", "U+AA32",
      "U+AA35", "U+AA36", "U+AA43", "U+AA4C", "U+AA70", "U+AA7C", "U+AAB0",
      "U+AAB2", "U+AAB3", "U+AAB4", "U+AAB7", "U+AAB8", "U+AABE", "U+AABF",
      "U+AAC1", "U+AADD", "U+AAEC", "U+AAED", "U+AAF3", "U+AAF4", "U+AAF6",
      "U+AB5B", "U+AB5C", "U+AB5D", "U+AB5E", "U+AB5F", "U+AB69", "U+AB6A",
      "U+AB6B", "U+ABE5", "U+ABE8", "U+ABED", "U+FB1E", "U+FBB2", "U+FBB3",
      "U+FBB4", "U+FBB5", "U+FBB6", "U+FBB7", "U+FBB8", "U+FBB9", "U+FBBA",
      "U+FBBB", "U+FBBC", "U+FBBD", "U+FBBE", "U+FBBF", "U+FBC0", "U+FBC1",
      "U+FBC2", "U+FE00", "U+FE01", "U+FE02", "U+FE03", "U+FE04", "U+FE05",
      "U+FE06", "U+FE07", "U+FE08", "U+FE09", "U+FE0A", "U+FE0B", "U+FE0C",
      "U+FE0D", "U+FE0E", "U+FE0F", "U+FE13", "U+FE20", "U+FE21", "U+FE22",
      "U+FE23", "U+FE24", "U+FE25", "U+FE26", "U+FE27", "U+FE28", "U+FE29",
      "U+FE2A", "U+FE2B", "U+FE2C", "U+FE2D", "U+FE2E", "U+FE2F", "U+FE52",
      "U+FE55", "U+FEFF", "U+FF07", "U+FF0E", "U+FF1A", "U+FF3E", "U+FF40",
      "U+FF70", "U+FF9E", "U+FF9F", "U+FFE3", "U+FFF9", "U+FFFA", "U+FFFB",
      "U+101FD", "U+102E0", "U+10376", "U+10377", "U+10378", "U+10379",
      "U+1037A", "U+10780", "U+10781", "U+10782", "U+10783", "U+10784",
      "U+10785", "U+10787", "U+10788", "U+10789", "U+1078A", "U+1078B",
      "U+1078C", "U+1078D", "U+1078E", "U+1078F", "U+10790", "U+10791",
      "U+10792", "U+10793", "U+10794", "U+10795", "U+10796", "U+10797",
      "U+10798", "U+10799", "U+1079A", "U+1079B", "U+1079C", "U+1079D",
      "U+1079E", "U+1079F", "U+107A0", "U+107A1", "U+107A2", "U+107A3",
      "U+107A4", "U+107A5", "U+107A6", "U+107A7", "U+107A8", "U+107A9",
      "U+107AA", "U+107AB", "U+107AC", "U+107AD", "U+107AE", "U+107AF",
      "U+107B0", "U+107B2", "U+107B3", "U+107B4", "U+107B5", "U+107B6",
      "U+107B7", "U+107B8", "U+107B9", "U+107BA", "U+10A01", "U+10A02",
      "U+10A03", "U+10A05", "U+10A06", "U+10A0C", "U+10A0D", "U+10A0E",
      "U+10A0F", "U+10A38", "U+10A39", "U+10A3A", "U+10A3F", "U+10AE5",
      "U+10AE6", "U+10D24", "U+10D25", "U+10D26", "U+10D27", "U+10EAB",
      "U+10EAC", "U+10F46", "U+10F47", "U+10F48", "U+10F49", "U+10F4A",
      "U+10F4B", "U+10F4C", "U+10F4D", "U+10F4E", "U+10F4F", "U+10F50",
      "U+10F82", "U+10F83", "U+10F84", "U+10F85", "U+11001", "U+11038",
      "U+11039", "U+1103A", "U+1103B", "U+1103C", "U+1103D", "U+1103E",
      "U+1103F", "U+11040", "U+11041", "U+11042", "U+11043", "U+11044",
      "U+11045", "U+11046", "U+11070", "U+11073", "U+11074", "U+1107F",
      "U+11080", "U+11081", "U+110B3", "U+110B4", "U+110B5", "U+110B6",
      "U+110B9", "U+110BA", "U+110BD", "U+110C2", "U+110CD", "U+11100",
      "U+11101", "U+11102", "U+11127", "U+11128", "U+11129", "U+1112A",
      "U+1112B", "U+1112D", "U+1112E", "U+1112F", "U+11130", "U+11131",
      "U+11132", "U+11133", "U+11134", "U+11173", "U+11180", "U+11181",
      "U+111B6", "U+111B7", "U+111B8", "U+111B9", "U+111BA", "U+111BB",
      "U+111BC", "U+111BD", "U+111BE", "U+111C9", "U+111CA", "U+111CB",
      "U+111CC", "U+111CF", "U+1122F", "U+11230", "U+11231", "U+11234",
      "U+11236", "U+11237", "U+1123E", "U+112DF", "U+112E3", "U+112E4",
      "U+112E5", "U+112E6", "U+112E7", "U+112E8", "U+112E9", "U+112EA",
      "U+11300", "U+11301", "U+1133B", "U+1133C", "U+11340", "U+11366",
      "U+11367", "U+11368", "U+11369", "U+1136A", "U+1136B", "U+1136C",
      "U+11370", "U+11371", "U+11372", "U+11373", "U+11374", "U+11438",
      "U+11439", "U+1143A", "U+1143B", "U+1143C", "U+1143D", "U+1143E",
      "U+1143F", "U+11442", "U+11443", "U+11444", "U+11446", "U+1145E",
      "U+114B3", "U+114B4", "U+114B5", "U+114B6", "U+114B7", "U+114B8",
      "U+114BA", "U+114BF", "U+114C0", "U+114C2", "U+114C3", "U+115B2",
      "U+115B3", "U+115B4", "U+115B5", "U+115BC", "U+115BD", "U+115BF",
      "U+115C0", "U+115DC", "U+115DD", "U+11633", "U+11634", "U+11635",
      "U+11636", "U+11637", "U+11638", "U+11639", "U+1163A", "U+1163D",
      "U+1163F", "U+11640", "U+116AB", "U+116AD", "U+116B0", "U+116B1",
      "U+116B2", "U+116B3", "U+116B4", "U+116B5", "U+116B7", "U+1171D",
      "U+1171E", "U+1171F", "U+11722", "U+11723", "U+11724", "U+11725",
      "U+11727", "U+11728", "U+11729", "U+1172A", "U+1172B", "U+1182F",
      "U+11830", "U+11831", "U+11832", "U+11833", "U+11834", "U+11835",
      "U+11836", "U+11837", "U+11839", "U+1183A", "U+1193B", "U+1193C",
      "U+1193E", "U+11943", "U+119D4", "U+119D5", "U+119D6", "U+119D7",
      "U+119DA", "U+119DB", "U+119E0", "U+11A01", "U+11A02", "U+11A03",
      "U+11A04", "U+11A05", "U+11A06", "U+11A07", "U+11A08", "U+11A09",
      "U+11A0A", "U+11A33", "U+11A34", "U+11A35", "U+11A36", "U+11A37",
      "U+11A38", "U+11A3B", "U+11A3C", "U+11A3D", "U+11A3E", "U+11A47",
      "U+11A51", "U+11A52", "U+11A53", "U+11A54", "U+11A55", "U+11A56",
      "U+11A59", "U+11A5A", "U+11A5B", "U+11A8A", "U+11A8B", "U+11A8C",
      "U+11A8D", "U+11A8E", "U+11A8F", "U+11A90", "U+11A91", "U+11A92",
      "U+11A93", "U+11A94", "U+11A95", "U+11A96", "U+11A98", "U+11A99",
      "U+11C30", "U+11C31", "U+11C32", "U+11C33", "U+11C34", "U+11C35",
      "U+11C36", "U+11C38", "U+11C39", "U+11C3A", "U+11C3B", "U+11C3C",
      "U+11C3D", "U+11C3F", "U+11C92", "U+11C93", "U+11C94", "U+11C95",
      "U+11C96", "U+11C97", "U+11C98", "U+11C99", "U+11C9A", "U+11C9B",
      "U+11C9C", "U+11C9D", "U+11C9E", "U+11C9F", "U+11CA0", "U+11CA1",
      "U+11CA2", "U+11CA3", "U+11CA4", "U+11CA5", "U+11CA6", "U+11CA7",
      "U+11CAA", "U+11CAB", "U+11CAC", "U+11CAD", "U+11CAE", "U+11CAF",
      "U+11CB0", "U+11CB2", "U+11CB3", "U+11CB5", "U+11CB6", "U+11D31",
      "U+11D32", "U+11D33", "U+11D34", "U+11D35", "U+11D36", "U+11D3A",
      "U+11D3C", "U+11D3D", "U+11D3F", "U+11D40", "U+11D41", "U+11D42",
      "U+11D43", "U+11D44", "U+11D45", "U+11D47", "U+11D90", "U+11D91",
      "U+11D95", "U+11D97", "U+11EF3", "U+11EF4", "U+13430", "U+13431",
      "U+13432", "U+13433", "U+13434", "U+13435", "U+13436", "U+13437",
      "U+13438", "U+16AF0", "U+16AF1", "U+16AF2", "U+16AF3", "U+16AF4",
      "U+16B30", "U+16B31", "U+16B32", "U+16B33", "U+16B34", "U+16B35",
      "U+16B36", "U+16B40", "U+16B41", "U+16B42", "U+16B43", "U+16F4F",
      "U+16F8F", "U+16F90", "U+16F91", "U+16F92", "U+16F93", "U+16F94",
      "U+16F95", "U+16F96", "U+16F97", "U+16F98", "U+16F99", "U+16F9A",
      "U+16F9B", "U+16F9C", "U+16F9D", "U+16F9E", "U+16F9F", "U+16FE0",
      "U+16FE1", "U+16FE3", "U+16FE4", "U+1AFF0", "U+1AFF1", "U+1AFF2",
      "U+1AFF3", "U+1AFF5", "U+1AFF6", "U+1AFF7", "U+1AFF8", "U+1AFF9",
      "U+1AFFA", "U+1AFFB", "U+1AFFD", "U+1AFFE", "U+1BC9D", "U+1BC9E",
      "U+1BCA0", "U+1BCA1", "U+1BCA2", "U+1BCA3", "U+1CF00", "U+1CF01",
      "U+1CF02", "U+1CF03", "U+1CF04", "U+1CF05", "U+1CF06", "U+1CF07",
      "U+1CF08", "U+1CF09", "U+1CF0A", "U+1CF0B", "U+1CF0C", "U+1CF0D",
      "U+1CF0E", "U+1CF0F", "U+1CF10", "U+1CF11", "U+1CF12", "U+1CF13",
      "U+1CF14", "U+1CF15", "U+1CF16", "U+1CF17", "U+1CF18", "U+1CF19",
      "U+1CF1A", "U+1CF1B", "U+1CF1C", "U+1CF1D", "U+1CF1E", "U+1CF1F",
      "U+1CF20", "U+1CF21", "U+1CF22", "U+1CF23", "U+1CF24", "U+1CF25",
      "U+1CF26", "U+1CF27", "U+1CF28", "U+1CF29", "U+1CF2A", "U+1CF2B",
      "U+1CF2C", "U+1CF2D", "U+1CF30", "U+1CF31", "U+1CF32", "U+1CF33",
      "U+1CF34", "U+1CF35", "U+1CF36", "U+1CF37", "U+1CF38", "U+1CF39",
      "U+1CF3A", "U+1CF3B", "U+1CF3C", "U+1CF3D", "U+1CF3E", "U+1CF3F",
      "U+1CF40", "U+1CF41", "U+1CF42", "U+1CF43", "U+1CF44", "U+1CF45",
      "U+1CF46", "U+1D167", "U+1D168", "U+1D169", "U+1D173", "U+1D174",
      "U+1D175", "U+1D176", "U+1D177", "U+1D178", "U+1D179", "U+1D17A",
      "U+1D17B", "U+1D17C", "U+1D17D", "U+1D17E", "U+1D17F", "U+1D180",
      "U+1D181", "U+1D182", "U+1D185", "U+1D186", "U+1D187", "U+1D188",
      "U+1D189", "U+1D18A", "U+1D18B", "U+1D1AA", "U+1D1AB", "U+1D1AC",
      "U+1D1AD", "U+1D242", "U+1D243", "U+1D244", "U+1DA00", "U+1DA01",
      "U+1DA02", "U+1DA03", "U+1DA04", "U+1DA05", "U+1DA06", "U+1DA07",
      "U+1DA08", "U+1DA09", "U+1DA0A", "U+1DA0B", "U+1DA0C", "U+1DA0D",
      "U+1DA0E", "U+1DA0F", "U+1DA10", "U+1DA11", "U+1DA12", "U+1DA13",
      "U+1DA14", "U+1DA15", "U+1DA16", "U+1DA17", "U+1DA18", "U+1DA19",
      "U+1DA1A", "U+1DA1B", "U+1DA1C", "U+1DA1D", "U+1DA1E", "U+1DA1F",
      "U+1DA20", "U+1DA21", "U+1DA22", "U+1DA23", "U+1DA24", "U+1DA25",
      "U+1DA26", "U+1DA27", "U+1DA28", "U+1DA29", "U+1DA2A", "U+1DA2B",
      "U+1DA2C", "U+1DA2D", "U+1DA2E", "U+1DA2F", "U+1DA30", "U+1DA31",
      "U+1DA32", "U+1DA33", "U+1DA34", "U+1DA35", "U+1DA36", "U+1DA3B",
      "U+1DA3C", "U+1DA3D", "U+1DA3E", "U+1DA3F", "U+1DA40", "U+1DA41",
      "U+1DA42", "U+1DA43", "U+1DA44", "U+1DA45", "U+1DA46", "U+1DA47",
      "U+1DA48", "U+1DA49", "U+1DA4A", "U+1DA4B", "U+1DA4C", "U+1DA4D",
      "U+1DA4E", "U+1DA4F", "U+1DA50", "U+1DA51", "U+1DA52", "U+1DA53",
      "U+1DA54", "U+1DA55", "U+1DA56", "U+1DA57", "U+1DA58", "U+1DA59",
      "U+1DA5A", "U+1DA5B", "U+1DA5C", "U+1DA5D", "U+1DA5E", "U+1DA5F",
      "U+1DA60", "U+1DA61", "U+1DA62", "U+1DA63", "U+1DA64", "U+1DA65",
      "U+1DA66", "U+1DA67", "U+1DA68", "U+1DA69", "U+1DA6A", "U+1DA6B",
      "U+1DA6C", "U+1DA75", "U+1DA84", "U+1DA9B", "U+1DA9C", "U+1DA9D",
      "U+1DA9E", "U+1DA9F", "U+1DAA1", "U+1DAA2", "U+1DAA3", "U+1DAA4",
      "U+1DAA5", "U+1DAA6", "U+1DAA7", "U+1DAA8", "U+1DAA9", "U+1DAAA",
      "U+1DAAB", "U+1DAAC", "U+1DAAD", "U+1DAAE", "U+1DAAF", "U+1E000",
      "U+1E001", "U+1E002", "U+1E003", "U+1E004", "U+1E005", "U+1E006",
      "U+1E008", "U+1E009", "U+1E00A", "U+1E00B", "U+1E00C", "U+1E00D",
      "U+1E00E", "U+1E00F", "U+1E010", "U+1E011", "U+1E012", "U+1E013",
      "U+1E014", "U+1E015", "U+1E016", "U+1E017", "U+1E018", "U+1E01B",
      "U+1E01C", "U+1E01D", "U+1E01E", "U+1E01F", "U+1E020", "U+1E021",
      "U+1E023", "U+1E024", "U+1E026", "U+1E027", "U+1E028", "U+1E029",
      "U+1E02A", "U+1E130", "U+1E131", "U+1E132", "U+1E133", "U+1E134",
      "U+1E135", "U+1E136", "U+1E137", "U+1E138", "U+1E139", "U+1E13A",
      "U+1E13B", "U+1E13C", "U+1E13D", "U+1E2AE", "U+1E2EC", "U+1E2ED",
      "U+1E2EE", "U+1E2EF", "U+1E8D0", "U+1E8D1", "U+1E8D2", "U+1E8D3",
      "U+1E8D4", "U+1E8D5", "U+1E8D6", "U+1E944", "U+1E945", "U+1E946",
      "U+1E947", "U+1E948", "U+1E949", "U+1E94A", "U+1E94B", "U+1F3FB",
      "U+1F3FC", "U+1F3FD", "U+1F3FE", "U+1F3FF", "U+E0001", "U+E0020",
      "U+E0021", "U+E0022", "U+E0023", "U+E0024", "U+E0025", "U+E0026",
      "U+E0027", "U+E0028", "U+E0029", "U+E002A", "U+E002B", "U+E002C",
      "U+E002D", "U+E002E", "U+E002F", "U+E0030", "U+E0031", "U+E0032",
      "U+E0033", "U+E0034", "U+E0035", "U+E0036", "U+E0037", "U+E0038",
      "U+E0039", "U+E003A", "U+E003B", "U+E003C", "U+E003D", "U+E003E",
      "U+E003F", "U+E0040", "U+E0041", "U+E0042", "U+E0043", "U+E0044",
      "U+E0045", "U+E0046", "U+E0047", "U+E0048", "U+E0049", "U+E004A",
      "U+E004B", "U+E004C", "U+E004D", "U+E004E", "U+E004F", "U+E0050",
      "U+E0051", "U+E0052", "U+E0053", "U+E0054", "U+E0055", "U+E0056",
      "U+E0057", "U+E0058", "U+E0059", "U+E005A", "U+E005B", "U+E005C",
      "U+E005D", "U+E005E", "U+E005F", "U+E0060", "U+E0061", "U+E0062",
      "U+E0063", "U+E0064", "U+E0065", "U+E0066", "U+E0067", "U+E0068",
      "U+E0069", "U+E006A", "U+E006B", "U+E006C", "U+E006D", "U+E006E",
      "U+E006F", "U+E0070", "U+E0071", "U+E0072", "U+E0073", "U+E0074",
      "U+E0075", "U+E0076", "U+E0077", "U+E0078", "U+E0079", "U+E007A",
      "U+E007B", "U+E007C", "U+E007D", "U+E007E", "U+E007F", "U+E0100",
      "U+E0101", "U+E0102", "U+E0103", "U+E0104", "U+E0105", "U+E0106",
      "U+E0107", "U+E0108", "U+E0109", "U+E010A", "U+E010B", "U+E010C",
      "U+E010D", "U+E010E", "U+E010F", "U+E0110", "U+E0111", "U+E0112",
      "U+E0113", "U+E0114", "U+E0115", "U+E0116", "U+E0117", "U+E0118",
      "U+E0119", "U+E011A", "U+E011B", "U+E011C", "U+E011D", "U+E011E",
      "U+E011F", "U+E0120", "U+E0121", "U+E0122", "U+E0123", "U+E0124",
      "U+E0125", "U+E0126", "U+E0127", "U+E0128", "U+E0129", "U+E012A",
      "U+E012B", "U+E012C", "U+E012D", "U+E012E", "U+E012F", "U+E0130",
      "U+E0131", "U+E0132", "U+E0133", "U+E0134", "U+E0135", "U+E0136",
      "U+E0137", "U+E0138", "U+E0139", "U+E013A", "U+E013B", "U+E013C",
      "U+E013D", "U+E013E", "U+E013F", "U+E0140", "U+E0141", "U+E0142",
      "U+E0143", "U+E0144", "U+E0145", "U+E0146", "U+E0147", "U+E0148",
      "U+E0149", "U+E014A", "U+E014B", "U+E014C", "U+E014D", "U+E014E",
      "U+E014F", "U+E0150", "U+E0151", "U+E0152", "U+E0153", "U+E0154",
      "U+E0155", "U+E0156", "U+E0157", "U+E0158", "U+E0159", "U+E015A",
      "U+E015B", "U+E015C", "U+E015D", "U+E015E", "U+E015F", "U+E0160",
      "U+E0161", "U+E0162", "U+E0163", "U+E0164", "U+E0165", "U+E0166",
      "U+E0167", "U+E0168", "U+E0169", "U+E016A", "U+E016B", "U+E016C",
      "U+E016D", "U+E016E", "U+E016F", "U+E0170", "U+E0171", "U+E0172",
      "U+E0173", "U+E0174", "U+E0175", "U+E0176", "U+E0177", "U+E0178",
      "U+E0179", "U+E017A", "U+E017B", "U+E017C", "U+E017D", "U+E017E",
      "U+E017F", "U+E0180", "U+E0181", "U+E0182", "U+E0183", "U+E0184",
      "U+E0185", "U+E0186", "U+E0187", "U+E0188", "U+E0189", "U+E018A",
      "U+E018B", "U+E018C", "U+E018D", "U+E018E", "U+E018F", "U+E0190",
      "U+E0191", "U+E0192", "U+E0193", "U+E0194", "U+E0195", "U+E0196",
      "U+E0197", "U+E0198", "U+E0199", "U+E019A", "U+E019B", "U+E019C",
      "U+E019D", "U+E019E", "U+E019F", "U+E01A0", "U+E01A1", "U+E01A2",
      "U+E01A3", "U+E01A4", "U+E01A5", "U+E01A6", "U+E01A7", "U+E01A8",
      "U+E01A9", "U+E01AA", "U+E01AB", "U+E01AC", "U+E01AD", "U+E01AE",
      "U+E01AF", "U+E01B0", "U+E01B1", "U+E01B2", "U+E01B3", "U+E01B4",
      "U+E01B5", "U+E01B6", "U+E01B7", "U+E01B8", "U+E01B9", "U+E01BA",
      "U+E01BB", "U+E01BC", "U+E01BD", "U+E01BE", "U+E01BF", "U+E01C0",
      "U+E01C1", "U+E01C2", "U+E01C3", "U+E01C4", "U+E01C5", "U+E01C6",
      "U+E01C7", "U+E01C8", "U+E01C9", "U+E01CA", "U+E01CB", "U+E01CC",
      "U+E01CD", "U+E01CE", "U+E01CF", "U+E01D0", "U+E01D1", "U+E01D2",
      "U+E01D3", "U+E01D4", "U+E01D5", "U+E01D6", "U+E01D7", "U+E01D8",
      "U+E01D9", "U+E01DA", "U+E01DB", "U+E01DC", "U+E01DD", "U+E01DE",
      "U+E01DF", "U+E01E0", "U+E01E1", "U+E01E2", "U+E01E3", "U+E01E4",
      "U+E01E5", "U+E01E6", "U+E01E7", "U+E01E8", "U+E01E9", "U+E01EA",
      "U+E01EB", "U+E01EC", "U+E01ED", "U+E01EE", "U+E01EF" }

\* the cased characters among the ones it does not skip
CasedNotIgnorable ==
    { "A", "B", "C", "D", "E", "F", "G", "H", "I", "J", "K", "L", "M", "N",
      "O", "P", "Q", "R", "S", "T", "U", "V", "W", "X", "Y", "Z", "a", "b",
      "c", "d", "e", "f", "g", "h", "i", "j", "k", "l", "m", "n", "o", "p",
      "q", "r", "s", "t", "u", "v", "w", "x", "y", "z", "ª", "µ", "º", "À",
      "Á", "Â", "Ã", "Ä", "Å", "Æ", "Ç", "È", "É", "Ê", "Ë", "Ì", "Í", "Î",
      "Ï", "Ð", "Ñ", "Ò", "Ó", "Ô", "Õ", "Ö", "Ø", "Ù", "Ú", "Û", "Ü", "Ý",
      "Þ", "ß", "à", "á", "â", "ã", "ä", "å", "æ", "ç", "è", "é", "ê", "ë",
      "ì", "í", "î", "ï", "ð", "ñ", "ò", "ó", "ô", "õ", "ö", "ø", "ù", "ú",
      "û", "ü", "ý", "þ", "ÿ", "U+0100", "U+0101", "U+0102", "U+0103",
      "U+0104", "U+0105", "U+0106", "U+0107", "U+0108", "U+0109", "U+010A",
      "U+010B", "U+010C", "U+010D", "U+010E", "U+010F", "U+0110", "U+0111",
      "U+0112", "U+0113", "U+0114", "U+0115", "U+0116", "U+0117", "U+0118",
      "U+0119", "U+011A", "U+011B", "U+011C", "U+011D", "U+011E", "U+011F",
      "U+0120", "U+0121", "U+0122", "U+0123", "U+0124", "U+0125", "U+0126",
      "U+0127", "U+0128", "U+0129", "U+012A", "U+012B", "U+012C", "U+012D",
      "U+012E", "U+012F", "U+0130", "i-dotless", "U+0132", "U+0133",
      "U+0134", "U+0135", "U+0136", "U+0137", "U+0138", "U+0139", "U+013A",
      "U+013B", "U+013C", "U+013D", "U+013E", "U+013F", "U+0140", "U+0141",
      "U+0142", "U+0143", "U+0144", "U+0145", "U+0146", "U+0147", "U+0148",
      "U+0149", "U+014A", "U+014B", "U+014C", "U+014D", "U+014E", "U+014F",
      "U+0150", "U+0151", "U+0152", "U+0153", "U+0154", "U+0155", "U+0156",
      "U+0157", "U+0158", "U+0159", "U+015A", "U+015B", "U+015C", "U+015D",
      "U+015E", "U+015F", "U+0160", "U+0161", "U+0162", "U+0163", "U+0164",
      "U+0165", "U+0166", "U+0167", "U+0168", "U+0169", "U+016A", "U+016B",
      "U+016C", "U+016D", "U+016E", "U+016F", "U+0170", "U+0171", "U+0172",
      "U+0173", "U+0174", "U+0175", "U+0176", "U+0177", "U+0178", "U+0179",
      "U+017A", "U+017B", "U+017C", "U+017D", "U+017E", "U+017F", "U+0180",
      "U+0181", "U+0182", "U+0183", "U+0184", "U+0185", "U+0186", "U+0187",
      "U+0188", "U+0189", "U+018A", "U+018B", "U+018C", "U+018D", "U+018E",
      "U+018F", "U+0190", "U+0191", "U+0192", "U+0193", "U+0194", "U+0195",
      "U+0196", "U+0197", "U+0198", "U+0199", "U+019A", "U+019B", "U+019C",
      "U+019D", "U+019E", "U+019F", "U+01A0", "U+01A1", "U+01A2", "U+01A3",
      "U+01A4", "U+01A5", "U+01A6", "U+01A7", "U+01A8", "U+01A9", "U+01AA",
      "U+01AB", "U+01AC", "U+01AD", "U+01AE", "U+01AF", "U+01B0", "U+01B1",
      "U+01B2", "U+01B3", "U+01B4", "U+01B5", "U+01B6", "U+01B7", "U+01B8",
      "U+01B9", "U+01BA", "U+01BC", "U+01BD", "U+01BE", "U+01BF", "U+01C4",
      "U+01C5", "U+01C6", "U+01C7", "U+01C8", "U+01C9", "U+01CA", "U+01CB",
      "U+01CC", "U+01CD", "U+01CE", "U+01CF", "U+01D0", "U+01D1", "U+01D2",
      "U+01D3", "U+01D4", "U+01D5", "U+01D6", "U+01D7", "U+01D8", "U+01D9",
      "U+01DA", "U+01DB", "U+01DC", "U+01DD", "U+01DE", "U+01DF", "U+01E0",
      "U+01E1", "U+01E2", "U+01E3", "U+01E4", "U+01E5", "U+01E6", "U+01E7",
      "U+01E8", "U+01E9", "U+01EA", "U+01EB", "U+01EC", "U+01ED", "U+01EE",
      "U+01EF", "U+01F0", "U+01F1", "U+01F2", "U+01F3", "U+01F4", "U+01F5",
      "U+01F6", "U+01F7", "U+01F8", "U+01F9", "U+01FA", "U+01FB", "U+01FC",
      "U+01FD", "U+01FE", "U+01FF", "U+0200", "U+0201", "U+0202", "U+0203",
      "U+0204", "U+0205", "U+0206", "U+0207", "U+0208", "U+0209", "U+020A",
      "U+020B", "U+020C", "U+020D", "U+020E", "U+020F", "U+0210", "U+0211",
      "U+0212", "U+0213", "U+0214", "U+0215", "U+0216", "U+0217", "U+0218",
      "U+0219", "U+021A", "U+021B", "U+021C", "U+021D", "U+021E", "U+021F",
      "U+0220", "U+0221", "U+0222", "U+0223", "U+0224", "U+0225", "U+0226",
      "U+0227", "U+0228", "U+0229", "U+022A", "U+022B", "U+022C", "U+022D",
      "U+022E", "U+022F", "U+0230", "U+0231", "U+0232", "U+0233", "U+0234",
      "U+0235", "U+0236", "U+0237", "U+0238", "U+0239", "U+023A", "U+023B",
      "U+023C", "U+023D", "U+023E", "U+023F", "U+0240", "U+0241", "U+0242",
      "U+0243", "U+0244", "U+0245", "U+0246", "U+0247", "U+0248", "U+0249",
      "U+024A", "U+024B", "U+024C", "U+024D", "U+024E", "U+024F", "U+0250",
      "U+0251", "U+0252", "U+0253", "U+0254", "U+0255", "U+0256", "U+0257",
      "U+0258", "U+0259", "U+025A", "U+025B", "U+025C", "U+025D", "U+025E",
      "U+025F", "U+0260", "U+0261", "U+0262", "U+0263", "U+0264", "U+0265",
      "U+0266", "U+0267", "U+0268", "U+0269", "U+026A", "U+026B", "U+026C",
      "U+026D", "U+026E", "U+026F", "U+0270", "U+0271", "U+0272", "U+0273",
      "U+0274", "U+0275", "U+0276", "U+0277", "U+0278", "U+0279", "U+027A",
      "U+027B", "U+027C", "U+027D", "U+027E", "U+027F", "U+0280", "U+0281",
      "U+0282", "U+0283", "U+0284", "U+0285", "U+0286", "U+0287", "U+0288",
      "U+0289", "U+028A", "U+028B", "U+028C", "U+028D", "U+028E", "U+028F",
      "U+0290", "U+0291", "U+0292", "U+0293", "U+0295", "U+0296", "U+0297",
      "U+0298", "U+0299", "U+029A", "U+029B", "U+029C", "U+029D", "U+029E",
      "U+029F", "U+02A0", "U+02A1", "U+02A2", "U+02A3", "U+02A4", "U+02A5",
      "U+02A6", "U+02A7", "U+02A8", "U+02A9", "U+02AA", "U+02AB", "U+02AC",
      "U+02AD", "U+02AE", "U+02AF", "U+0370", "U+0371", "U+0372", "U+0373",
      "U+0376", "U+0377", "U+037B", "U+037C", "U+037D", "U+037F", "U+0386",
      "U+0388", "U+0389", "U+038A", "U+038C", "U+038E", "U+038F", "U+0390",
      "U+0391", "U+0392", "U+0393", "U+0394", "U+0395", "U+0396", "U+0397",
      "U+0398", "U+0399", "U+039A", "U+039B", "U+039C", "U+039D", "U+039E",
      "U+039F", "U+03A0", "U+03A1", "U+03A3", "U+03A4", "U+03A5", "U+03A6",
      "U+03A7", "U+03A8", "U+03A9", "U+03AA", "U+03AB", "U+03AC", "U+03AD",
      "U+03AE", "U+03AF", "U+03B0", "U+03B1", "U+03B2", "U+03B3", "U+03B4",
      "U+03B5", "U+03B6", "U+03B7", "U+03B8", "U+03B9", "U+03BA", "U+03BB",
      "U+03BC", "U+03BD", "U+03BE", "U+03BF", "U+03C0", "U+03C1", "U+03C2",
      "U+03C3", "U+03C4", "U+03C5", "U+03C6", "U+03C7", "U+03C8", "U+03C9",
      "U+03CA", "U+03CB", "U+03CC", "U+03CD", "U+03CE", "U+03CF", "U+03D0",
      "U+03D1", "U+03D2", "U+03D3", "U+03D4", "U+03D5", "U+03D6", "U+03D7",
      "U+03D8", "U+03D9", "U+03DA", "U+03DB", "U+03DC", "U+03DD", "U+03DE",
      "U+03DF", "U+03E0", "U+03E1", "U+03E2", "U+03E3", "U+03E4", "U+03E5",
      "U+03E6", "U+03E7", "U+03E8", "U+03E9", "U+03EA", "U+03EB", "U+03EC",
      "U+03ED", "U+03EE", "U+03EF", "U+03F0", "U+03F1", "U+03F2", "U+03F3",
      "U+03F4", "U+03F5", "U+03F7", "U+03F8", "U+03F9", "U+03FA", "U+03FB",
      "U+03FC", "U+03FD", "U+03FE", "U+03FF", "U+0400", "U+0401", "U+0402",
      "U+0403", "U+0404", "U+0405", "U+0406", "U+0407", "U+0408", "U+0409",
      "U+040A", "U+040B", "U+040C", "U+040D", "U+040E", "U+040F", "U+0410",
      "U+0411", "U+0412", "U+0413", "U+0414", "U+0415", "U+0416", "U+0417",
      "U+0418", "U+0419", "U+041A", "U+041B", "U+041C", "U+041D", "U+041E",
      "U+041F", "U+0420", "U+0421", "U+0422", "U+0423", "U+0424", "U+0425",
      "U+0426", "U+0427", "U+0428", "U+0429", "U+042A", "U+042B", "U+042C",
      "U+042D", "U+042E", "U+042F", "U+0430", "U+0431", "U+0432", "U+0433",
      "U+0434", "U+0435", "U+0436", "U+0437", "U+0438", "U+0439", "U+043A",
      "U+043B", "U+043C", "U+043D", "U+043E", "U+043F", "U+0440", "U+0441",
      "U+0442", "U+0443", "U+0444", "U+0445", "U+0446", "U+0447", "U+0448",
      "U+0449", "U+044A", "U+044B", "U+044C", "U+044D", "U+044E", "U+044F",
      "U+0450", "U+0451", "U+0452", "U+0453", "U+0454", "U+0455", "U+0456",
      "U+0457", "U+0458", "U+0459", "U+045A", "U+045B", "U+045C", "U+045D",
      "U+045E", "U+045F", "U+0460", "U+0461", "U+0462", "U+0463", "U+0464",
      "U+0465", "U+0466", "U+0467", "U+0468", "U+0469", "U+046A", "U+046B",
      "U+046C", "U+046D", "U+046E", "U+046F", "U+0470", "U+0471", "U+0472",
      "U+0473", "U+0474", "U+0475", "U+0476", "U+0477", "U+0478", "U+0479",
      "U+047A", "U+047B", "U+047C", "U+047D", "U+047E", "U+047F", "U+0480",
      "U+0481", "U+048A", "U+048B", "U+048C", "U+048D", "U+048E", "U+048F",
      "U+0490", "U+0491", "U+0492", "U+0493", "U+0494", "U+0495", "U+0496",
      "U+0497", "U+0498", "U+0499", "U+049A", "U+049B", "U+049C", "U+049D",
      "U+049E", "U+049F", "U+04A0", "U+04A1", "U+04A2", "U+04A3", "U+04A4",
      "U+04A5", "U+04A6", "U+04A7", "U+04A8", "U+04A9", "U+04AA", "U+04AB",
      "U+04AC", "U+04AD", "U+04AE", "U+04AF", "U+04B0", "U+04B1", "U+04B2",
      "U+04B3", "U+04B4", "U+04B5", "U+04B6", "U+04B7", "U+04B8", "U+04B9",
      "U+04BA", "U+04BB", "U+04BC", "U+04BD", "U+04BE", "U+04BF", "U+04C0",
      "U+04C1", "U+04C2", "U+04C3", "U+04C4", "U+04C5", "U+04C6", "U+04C7",
      "U+04C8", "U+04C9", "U+04CA", "U+04CB", "U+04CC", "U+04CD", "U+04CE",
      "U+04CF", "U+04D0", "U+04D1", "U+04D2", "U+04D3", "U+04D4", "U+04D5",
      "U+04D6", "U+04D7", "U+04D8", "U+04D9", "U+04DA", "U+04DB", "U+04DC",
      "U+04DD", "U+04DE", "U+04DF", "U+04E0", "U+04E1", "U+04E2", "U+04E3",
      "U+04E4", "U+04E5", "U+04E6", "U+04E7", "U+04E8", "U+04E9", "U+04EA",
      "U+04EB", "U+04EC", "U+04ED", "U+04EE", "U+04EF", "U+04F0", "U+04F1",
      "U+04F2", "U+04F3", "U+04F4", "U+04F5", "U+04F6", "U+04F7", "U+04F8",
      "U+04F9", "U+04FA", "U+04FB", "U+04FC", "U+04FD", "U+04FE", "U+04FF",
      "U+0500", "U+0501", "U+0502", "U+0503", "U+0504", "U+0505", "U+0506",
      "U+0507", "U+0508", "U+0509", "U+050A", "U+050B", "U+050C", "U+050D",
      "U+050E", "U+050F", "U+0510", "U+0511", "U+0512", "U+0513", "U+0514",
      "U+0515", "U+0516", "U+0517", "U+0518", "U+0519", "U+051A", "U+051B",
      "U+051C", "U+051D", "U+051E", "U+051F", "U+0520", "U+0521", "U+0522",
      "U+0523", "U+0524", "U+0525", "U+0526", "U+0527", "U+0528", "U+0529",
      "U+052A", "U+052B", "U+052C", "U+052D", "U+052E", "U+052F", "U+0531",
      "U+0532", "U+0533", "U+0534", "U+0535", "U+0536", "U+0537", "U+0538",
      "U+0539", "U+053A", "U+053B", "U+053C", "U+053D", "U+053E", "U+053F",
      "U+0540", "U+0541", "U+0542", "U+0543", "U+0544", "U+0545", "U+0546",
      "U+0547", "U+0548", "U+0549", "U+054A", "U+054B", "U+054C", "U+054D",
      "U+054E", "U+054F", "U+0550", "U+0551", "U+0552", "U+0553", "U+0554",
      "U+0555", "U+0556", "U+0560", "U+0561", "U+0562", "U+0563", "U+0564",
      "U+0565", "U+0566", "U+0567", "U+0568", "U+0569", "U+056A", "U+056B",
      "U+056C", "U+056D", "U+056E", "U+056F", "U+0570", "U+0571", "U+0572",
      "U+0573", "U+0574", "U+0575", "U+0576", "U+0577", "U+0578", "U+0579",
      "U+057A", "U+057B", "U+057C", "U+057D", "U+057E", "U+057F", "U+0580",
      "U+0581", "U+0582", "U+0583", "U+0584", "U+0585", "U+0586", "U+0587",
      "U+0588", "U+10A0", "U+10A1", "U+10A2", "U+10A3", "U+10A4", "U+10A5",
      "U+10A6", "U+10A7", "U+10A8", "U+10A9", "U+10AA", "U+10AB", "U+10AC",
      "U+10AD", "U+10AE", "U+10AF", "U+10B0", "U+10B1", "U+10B2", "U+10B3",
      "U+10B4", "U+10B5", "U+10B6", "U+10B7", "U+10B8", "U+10B9", "U+10BA",
      "U+10BB", "U+10BC", "U+10BD", "U+10BE", "U+10BF", "U+10C0", "U+10C1",
      "U+10C2", "U+10C3", "U+10C4", "U+10C5", "U+10C7", "U+10CD", "U+10D0",
      "U+10D1", "U+10D2", "U+10D3", "U+10D4", "U+10D5", "U+10D6", "U+10D7",
      "U+10D8", "U+10D9", "U+10DA", "U+10DB", "U+10DC", "U+10DD", "U+10DE",
      "U+10DF", "U+10E0", "U+10E1", "U+10E2", "U+10E3", "U+10E4", "U+10E5",
      "U+10E6", "U+10E7", "U+10E8", "U+10E9", "U+10EA", "U+10EB", "U+10EC",
      "U+10ED", "U+10EE", "U+10EF", "U+10F0", "U+10F1", "U+10F2", "U+10F3",
      "U+10F4", "U+10F5", "U+10F6", "U+10F7", "U+10F8", "U+10F9", "U+10FA",
      "U+10FD", "U+10FE", "U+10FF", "U+13A0", "U+13A1", "U+13A2", "U+13A3",
      "U+13A4", "U+13A5", "U+13A6", "U+13A7", "U+13A8", "U+13A9", "U+13AA",
      "U+13AB", "U+13AC", "U+13AD", "U+13AE", "U+13AF", "U+13B0", "U+13B1",
      "U+13B2", "U+13B3", "U+13B4", "U+13B5", "U+13B6", "U+13B7", "U+13B8",
      "U+13B9", "U+13BA", "U+13BB", "U+13BC", "U+13BD", "U+13BE", "U+13BF",
      "U+13C0", "U+13C1", "U+13C2", "U+13C3", "U+13C4", "U+13C5", "U+13C6",
      "U+13C7", "U+13C8", "U+13C9", "U+13CA", "U+13CB", "U+13CC", "U+13CD",
      "U+13CE", "U+13CF", "U+13D0", "U+13D1", "U+13D2", "U+13D3", "U+13D4",
      "U+13D5", "U+13D6", "U+13D7", "U+13D8", "U+13D9", "U+13DA", "U+13DB",
      "U+13DC", "U+13DD", "U+13DE", "U+13DF", "U+13E0", "U+13E1", "U+13E2",
      "U+13E3", "U+13E4", "U+13E5", "U+13E6", "U+13E7", "U+13E8", "U+13E9",
      "U+13EA", "U+13EB", "U+13EC", "U+13ED", "U+13EE", "U+13EF", "U+13F0",
      "U+13F1", "U+13F2", "U+13F3", "U+13F4", "U+13F5", "U+13F8", "U+13F9",
      "U+13FA", "U+13FB", "U+13FC", "U+13FD", "U+1C80", "U+1C81", "U+1C82",
      "U+1C83", "U+1C84", "U+1C85", "U+1C86", "U+1C87", "U+1C88", "U+1C90",
      "U+1C91", "U+1C92", "U+1C93", "U+1C94", "U+1C95", "U+1C96", "U+1C97",
      "U+1C98", "U+1C99", "U+1C9A", "U+1C9B", "U+1C9C", "U+1C9D", "U+1C9E",
      "U+1C9F", "U+1CA0", "U+1CA1", "U+1CA2", "U+1CA3", "U+1CA4", "U+1CA5",
      "U+1CA6", "U+1CA7", "U+1CA8", "U+1CA9", "U+1CAA", "U+1CAB", "U+1CAC",
      "U+1CAD", "U+1CAE", "U+1CAF", "U+1CB0", "U+1CB1", "U+1CB2", "U+1CB3",
      "U+1CB4", "U+1CB5", "U+1CB6", "U+1CB7", "U+1CB8", "U+1CB9", "U+1CBA",
      "U+1CBD", "U+1CBE", "U+1CBF", "U+1D00", "U+1D01", "U+1D02", "U+1D03",
      "U+1D04", "U+1D05", "U+1D06", "U+1D07", "U+1D08", "U+1D09", "U+1D0A",
      "U+1D0B", "U+1D0C", "U+1D0D", "U+1D0E", "U+1D0F", "U+1D10", "U+1D11",
      "U+1D12", "U+1D13", "U+1D14", "U+1D15", "U+1D16", "U+1D17", "U+1D18",
      "U+1D19", "U+1D1A", "U+1D1B", "U+1D1C", "U+1D1D", "U+1D1E", "U+1D1F",
      "U+1D20", "U+1D21", "U+1D22", "U+1D23", "U+1D24", "U+1D25", "U+1D26",
      "U+1D27", "U+1D28", "U+1D29", "U+1D2A", "U+1D2B", "U+1D6B", "U+1D6C",
      "U+1D6D", "U+1D6E", "U+1D6F", "U+1D70", "U+1D71", "U+1D72", "U+1D73",
      "U+1D74", "U+1D75", "U+1D76", "U+1D77", "U+1D79", "U+1D7A", "U+1D7B",
      "U+1D7C", "U+1D7D", "U+1D7E", "U+1D7F", "U+1D80", "U+1D81", "U+1D82",
      "U+1D83", "U+1D84", "U+1D85", "U+1D86", "U+1D87", "U+1D88", "U+1D89",
      "U+1D8A", "U+1D8B", "U+1D8C", "U+1D8D", "U+1D8E", "U+1D8F", "U+1D90",
      "U+1D91", "U+1D92", "U+1D93", "U+1D94", "U+1D95", "U+1D96", "U+1D97",
      "U+1D98", "U+1D99", "U+1D9A", "U+1E00", "U+1E01", "U+1E02", "U+1E03",
      "U+1E04", "U+1E05", "U+1E06", "U+1E07", "U+1E08", "U+1E09", "U+1E0A",
      "U+1E0B", "U+1E0C", "U+1E0D", "U+1E0E", "U+1E0F", "U+1E10", "U+1E11",
      "U+1E12", "U+1E13", "U+1E14", "U+1E15", "U+1E16", "U+1E17", "U+1E18",
      "U+1E19", "U+1E1A", "U+1E1B", "U+1E1C", "U+1E1D", "U+1E1E", "U+1E1F",
      "U+1E20", "U+1E21", "U+1E22", "U+1E23", "U+1E24", "U+1E25", "U+1E26",
      "U+1E27", "U+1E28", "U+1E29", "U+1E2A", "U+1E2B", "U+1E2C", "U+1E2D",
      "U+1E2E", "U+1E2F", "U+1E30", "U+1E31", "U+1E32", "U+1E33", "U+1E34",
      "U+1E35", "U+1E36", "U+1E37", "U+1E38", "U+1E39", "U+1E3A", "U+1E3B",
      "U+1E3C", "U+1E3D", "U+1E3E", "U+1E3F", "U+1E40", "U+1E41", "U+1E42",
      "U+1E43", "U+1E44", "U+1E45", "U+1E46", "U+1E47", "U+1E48", "U+1E49",
      "U+1E4A", "U+1E4B", "U+1E4C", "U+1E4D", "U+1E4E", "U+1E4F", "U+1E50",
      "U+1E51", "U+1E52", "U+1E53", "U+1E54", "U+1E55", "U+1E56", "U+1E57",
      "U+1E58", "U+1E59", "U+1E5A", "U+1E5B", "U+1E5C", "U+1E5D", "U+1E5E",
      "U+1E5F", "U+1E60", "U+1E61", "U+1E62", "U+1E63", "U+1E64", "U+1E65",
      "U+1E66", "U+1E67", "U+1E68", "U+1E69", "U+1E6A", "U+1E6B", "U+1E6C",
      "U+1E6D", "U+1E6E", "U+1E6F", "U+1E70", "U+1E71", "U+1E72", "U+1E73",
      "U+1E74", "U+1E75", "U+1E76", "U+1E77", "U+1E78", "U+1E79", "U+1E7A",
      "U+1E7B", "U+1E7C", "U+1E7D", "U+1E7E", "U+1E7F", "U+1E80", "U+1E81",
      "U+1E82", "U+1E83", "U+1E84", "U+1E85", "U+1E86", "U+1E87", "U+1E88",
      "U+1E89", "U+1E8A", "U+1E8B", "U+1E8C", "U+1E8D", "U+1E8E", "U+1E8F",
      "U+1E90", "U+1E91", "U+1E92", "U+1E93", "U+1E94", "U+1E95", "U+1E96",
      "U+1E97", "U+1E98", "U+1E99", "U+1E9A", "U+1E9B", "U+1E9C", "U+1E9D",
      "U+1E9E", "U+1E9F", "U+1EA0", "U+1EA1", "U+1EA2", "U+1EA3", "U+1EA4",
      "U+1EA5", "U+1EA6", "U+1EA7", "U+1EA8", "U+1EA9", "U+1EAA", "U+1EAB",
      "U+1EAC", "U+1EAD", "U+1EAE", "U+1EAF", "U+1EB0", "U+1EB1", "U+1EB2",
      "U+1EB3", "U+1EB4", "U+1EB5", "U+1EB6", "U+1EB7", "U+1EB8", "U+1EB9",
      "U+1EBA", "U+1EBB", "U+1EBC", "U+1EBD", "U+1EBE", "U+1EBF", "U+1EC0",
      "U+1EC1", "U+1EC2", "U+1EC3", "U+1EC4", "U+1EC5", "U+1EC6", "U+1EC7",
      "U+1EC8", "U+1EC9", "U+1ECA", "U+1ECB", "U+1ECC", "U+1ECD", "U+1ECE",
      "U+1ECF", "U+1ED0", "U+1ED1", "U+1ED2", "U+1ED3", "U+1ED4", "U+1ED5",
      "U+1ED6", "U+1ED7", "U+1ED8", "U+1ED9", "U+1EDA", "U+1EDB", "U+1EDC",
      "U+1EDD", "U+1EDE", "U+1EDF", "U+1EE0", "U+1EE1", "U+1EE2", "U+1EE3",
      "U+1EE4", "U+1EE5", "U+1EE6", "U+1EE7", "U+1EE8", "U+1EE9", "U+1EEA",
      "U+1EEB", "U+1EEC", "U+1EED", "U+1EEE", "U+1EEF", "U+1EF0", "U+1EF1",
      "U+1EF2", "U+1EF3", "U+1EF4", "U+1EF5", "U+1EF6", "U+1EF7", "U+1EF8",
      "U+1EF9", "U+1EFA", "U+1EFB", "U+1EFC", "U+1EFD", "U+1EFE", "U+1EFF",
      "U+1F00", "U+1F01", "U+1F02", "U+1F03", "U+1F04", "U+1F05", "U+1F06",
      "U+1F07", "U+1F08", "U+1F09", "U+1F0A", "U+1F0B", "U+1F0C", "U+1F0D",
      "U+1F0E", "U+1F0F", "U+1F10", "U+1F11", "U+1F12", "U+1F13", "U+1F14",
      "U+1F15", "U+1F18", "U+1F19", "U+1F1A", "U+1F1B", "U+1F1C", "U+1F1D",
      "U+1F20", "U+1F21", "U+1F22", "U+1F23", "U+1F24", "U+1F25", "U+1F26",
      "U+1F27", "U+1F28", "U+1F29", "U+1F2A", "U+1F2B", "U+1F2C", "U+1F2D",
      "U+1F2E", "U+1F2F", "U+1F30", "U+1F31", "U+1F32", "U+1F33", "U+1F34",
      "U+1F35", "U+1F36", "U+1F37", "U+1F38", "U+1F39", "U+1F3A", "U+1F3B",
      "U+1F3C", "U+1F3D", "U+1F3E", "U+1F3F", "U+1F40", "U+1F41", "U+1F42",
      "U+1F43", "U+1F44", "U+1F45", "U+1F48", "U+1F49", "U+1F4A", "U+1F4B",
      "U+1F4C", "U+1F4D", "U+1F50", "U+1F51", "U+1F52", "U+1F53", "U+1F54",
      "U+1F55", "U+1F56", "U+1F57", "U+1F59", "U+1F5B", "U+1F5D", "U+1F5F",
      "U+1F60", "U+1F61", "U+1F62", "U+1F63", "U+1F64", "U+1F65", "U+1F66",
      "U+1F67", "U+1F68", "U+1F69", "U+1F6A", "U+1F6B", "U+1F6C", "U+1F6D",
      "U+1F6E", "U+1F6F", "U+1F70", "U+1F71", "U+1F72", "U+1F73", "U+1F74",
      "U+1F75", "U+1F76", "U+1F77", "U+1F78", "U+1F79", "U+1F7A", "U+1F7B",
      "U+1F7C", "U+1F7D", "U+1F80", "U+1F81", "U+1F82", "U+1F83", "U+1F84",
      "U+1F85", "U+1F86", "U+1F87", "U+1F88", "U+1F89", "U+1F8A", "U+1F8B",
      "U+1F8C", "U+1F8D", "U+1F8E", "U+1F8F", "U+1F90", "U+1F91", "U+1F92",
      "U+1F93", "U+1F94", "U+1F95", "U+1F96", "U+1F97", "U+1F98", "U+1F99",
      "U+1F9A", "U+1F9B", "U+1F9C", "U+1F9D", "U+1F9E", "U+1F9F", "U+1FA0",
      "U+1FA1", "U+1FA2", "U+1FA3", "U+1FA4", "U+1FA5", "U+1FA6", "U+1FA7",
      "U+1FA8", "U+1FA9", "U+1FAA", "U+1FAB", "U+1FAC", "U+1FAD", "U+1FAE",
      "U+1FAF", "U+1FB0", "U+1FB1", "U+1FB2", "U+1FB3", "U+1FB4", "U+1FB6",
      "U+1FB7", "U+1FB8", "U+1FB9", "U+1FBA", "U+1FBB", "U+1FBC", "U+1FBE",
      "U+1FC2", "U+1FC3", "U+1FC4", "U+1FC6", "U+1FC7", "U+1FC8", "U+1FC9",
      "U+1FCA", "U+1FCB", "U+1FCC", "U+1FD0", "U+1FD1", "U+1FD2", "U+1FD3",
      "U+1FD6", "U+1FD7", "U+1FD8", "U+1FD9", "U+1FDA", "U+1FDB", "U+1FE0",
      "U+1FE1", "U+1FE2", "U+1FE3", "U+1FE4", "U+1FE5", "U+1FE6", "U+1FE7",
      "U+1FE8", "U+1FE9", "U+1FEA", "U+1FEB", "U+1FEC", "U+1FF2", "U+1FF3",
      "U+1FF4", "U+1FF6", "U+1FF7", "U+1FF8", "U+1FF9", "U+1FFA", "U+1FFB",
      "U+1FFC", "U+2102", "U+2107", "U+210A", "U+210B", "U+210C", "U+210D",
      "U+210E", "U+210F", "U+2110", "U+2111", "U+2112", "U+2113", "U+2115",
      "U+2119", "U+211A", "U+211B", "U+211C", "U+211D", "U+2124", "U+2126",
      "U+2128", "U+212A", "U+212B", "U+212C", "U+212D", "U+212F", "U+2130",
      "U+2131", "U+2132", "U+2133", "U+2134", "U+2139", "U+213C", "U+213D",
      "U+213E", "U+213F", "U+2145", "U+2146", "U+2147", "U+2148", "U+2149",
      "U+214E", "U+2160", "U+2161", "U+2162", "U+2163", "U+2164", "U+2165",
      "U+2166", "U+2167", "U+2168", "U+2169", "U+216A", "U+216B", "U+216C",
      "U+216D", "U+216E", "U+216F", "U+2170", "U+2171", "U+2172", "U+2173",
      "U+2174", "U+2175", "U+2176", "U+2177", "U+2178", "U+2179", "U+217A",
      "U+217B", "U+217C", "U+217D", "U+217E", "U+217F", "U+2183", "U+2184",
      "U+24B6", "U+24B7", "U+24B8", "U+24B9", "U+24BA", "U+24BB", "U+24BC",
      "U+24BD", "U+24BE", "U+24BF", "U+24C0", "U+24C1", "U+24C2", "U+24C3",
      "U+24C4", "U+24C5", "U+24C6", "U+24C7", "U+24C8", "U+24C9", "U+24CA",
      "U+24CB", "U+24CC", "U+24CD", "U+24CE", "U+24CF", "U+24D0", "U+24D1",
      "U+24D2", "U+24D3", "U+24D4", "U+24D5", "U+24D6", "U+24D7", "U+24D8",
      "U+24D9", "U+24DA", "U+24DB", "U+24DC", "U+24DD", "U+24DE", "U+24DF",
      "U+24E0", "U+24E1", "U+24E2", "U+24E3", "U+24E4", "U+24E5", "U+24E6",
      "U+24E7", "U+24E8", "U+24E9", "U+2C00", "U+2C01", "U+2C02", "U+2C03",
      "U+2C04", "U+2C05", "U+2C06", "U+2C07", "U+2C08", "U+2C09", "U+2C0A",
      "U+2C0B", "U+2C0C", "U+2C0D", "U+2C0E", "U+2C0F", "U+2C10", "U+2C11",
      "U+2C12", "U+2C13", "U+2C14", "U+2C15", "U+2C16", "U+2C17", "U+2C18",
      "U+2C19", "U+2C1A", "U+2C1B", "U+2C1C", "U+2C1D", "U+2C1E", "U+2C1F",
      "U+2C20", "U+2C21", "U+2C22", "U+2C23", "U+2C24", "U+2C25", "U+2C26",
      "U+2C27", "U+2C28", "U+2C29", "U+2C2A", "U+2C2B", "U+2C2C", "U+2C2D",
      "U+2C2E", "U+2C2F", "U+2C30", "U+2C31", "U+2C32", "U+2C33", "U+2C34",
      "U+2C35", "U+2C36", "U+2C37", "U+2C38", "U+2C39", "U+2C3A", "U+2C3B",
      "U+2C3C", "U+2C3D", "U+2C3E", "U+2C3F", "U+2C40", "U+2C41", "U+2C42",
      "U+2C43", "U+2C44", "U+2C45", "U+2C46", "U+2C47", "U+2C48", "U+2C49",
      "U+2C4A", "U+2C4B", "U+2C4C", "U+2C4D", "U+2C4E", "U+2C4F", "U+2C50",
      "U+2C51", "U+2C52", "U+2C53", "U+2C54", "U+2C55", "U+2C56", "U+2C57",
      "U+2C58", "U+2C59", "U+2C5A", "U+2C5B", "U+2C5C", "U+2C5D", "U+2C5E",
      "U+2C5F", "U+2C60", "U+2C61", "U+2C62", "U+2C63", "U+2C64", "U+2C65",
      "U+2C66", "U+2C67", "U+2C68", "U+2C69", "U+2C6A", "U+2C6B", "U+2C6C",
      "U+2C6D", "U+2C6E", "U+2C6F", "U+2C70", "U+2C71", "U+2C72", "U+2C73",
      "U+2C74", "U+2C75", "U+2C76", "U+2C77", "U+2C78", "U+2C79", "U+2C7A",
      "U+2C7B", "U+2C7E", "U+2C7F", "U+2C80", "U+2C81", "U+2C82", "U+2C83",
      "U+2C84", "U+2C85", "U+2C86", "U+2C87", "U+2C88", "U+2C89", "U+2C8A",
      "U+2C8B", "U+2C8C", "U+2C8D", "U+2C8E", "U+2C8F", "U+2C90", "U+2C91",
      "U+2C92", "U+2C93", "U+2C94", "U+2C95", "U+2C96", "U+2C97", "U+2C98",
      "U+2C99", "U+2C9A", "U+2C9B", "U+2C9C", "U+2C9D", "U+2C9E", "U+2C9F",
      "U+2CA0", "U+2CA1", "U+2CA2", "U+2CA3", "U+2CA4", "U+2CA5", "U+2CA6",
      "U+2CA7", "U+2CA8", "U+2CA9", "U+2CAA", "U+2CAB", "U+2CAC", "U+2CAD",
      "U+2CAE", "U+2CAF", "U+2CB0", "U+2CB1", "U+2CB2", "U+2CB3", "U+2CB4",
      "U+2CB5", "U+2CB6", "U+2CB7", "U+2CB8", "U+2CB9", "U+2CBA", "U+2CBB",
      "U+2CBC", "U+2CBD", "U+2CBE", "U+2CBF", "U+2CC0", "U+2CC1", "U+2CC2",
      "U+2CC3", "U+2CC4", "U+2CC5", "U+2CC6", "U+2CC7", "U+2CC8", "U+2CC9",
      "U+2CCA", "U+2CCB", "U+2CCC", "U+2CCD", "U+2CCE", "U+2CCF", "U+2CD0",
      "U+2CD1", "U+2CD2", "U+2CD3", "U+2CD4", "U+2CD5", "U+2CD6", "U+2CD7",
      "U+2CD8", "U+2CD9", "U+2CDA", "U+2CDB", "U+2CDC", "U+2CDD", "U+2CDE",
      "U+2CDF", "U+2CE0", "U+2CE1", "U+2CE2", "U+2CE3", "U+2CE4", "U+2CEB",
      "U+2CEC", "U+2CED", "U+2CEE", "U+2CF2", "U+2CF3", "U+2D00", "U+2D01",
      "U+2D02", "U+2D03", "U+2D04", "U+2D05", "U+2D06", "U+2D07", "U+2D08",
      "U+2D09", "U+2D0A", "U+2D0B", "U+2D0C", "U+2D0D", "U+2D0E", "U+2D0F",
      "U+2D10", "U+2D11", "U+2D12", "U+2D13", "U+2D14", "U+2D15", "U+2D16",
      "U+2D17", "U+2D18", "U+2D19", "U+2D1A", "U+2D1B", "U+2D1C", "U+2D1D",
      "U+2D1E", "U+2D1F", "U+2D20", "U+2D21", "U+2D22", "U+2D23", "U+2D24",
      "U+2D25", "U+2D27", "U+2D2D", "U+A640", "U+A641", "U+A642", "U+A643",
      "U+A644", "U+A645", "U+A646", "U+A647", "U+A648", "U+A649", "U+A64A",
      "U+A64B", "U+A64C", "U+A64D", "U+A64E", "U+A64F", "U+A650", "U+A651",
      "U+A652", "U+A653", "U+A654", "U+A655", "U+A656", "U+A657", "U+A658",
      "U+A659", "U+A65A", "U+A65B", "U+A65C", "U+A65D", "U+A65E", "U+A65F",
      "U+A660", "U+A661", "U+A662", "U+A663", "U+A664", "U+A665", "U+A666",
      "U+A667", "U+A668", "U+A669", "U+A66A", "U+A66B", "U+A66C", "U+A66D",
      "U+A680", "U+A681", "U+A682", "U+A683", "U+A684", "U+A685", "U+A686",
      "U+A687", "U+A688", "U+A689", "U+A68A", "U+A68B", "U+A68C", "U+A68D",
      "U+A68E", "U+A68F", "U+A690", "U+A691", "U+A692", "U+A693", "U+A694",
      "U+A695", "U+A696", "U+A697", "U+A698", "U+A699", "U+A69A", "U+A69B",
      "U+A722", "U+A723", "U+A724", "U+A725", "U+A726", "U+A727", "U+A728",
      "U+A729", "U+A72A", "U+A72B", "U+A72C", "U+A72D", "U+A72E", "U+A72F",
      "U+A730", "U+A731", "U+A732", "U+A733", "U+A734", "U+A735", "U+A736",
      "U+A737", "U+A738", "U+A739", "U+A73A", "U+A73B", "U+A73C", "U+A73D",
      "U+A73E", "U+A73F", "U+A740", "U+A741", "U+A742", "U+A743", "U+A744",
      "U+A745", "U+A746", "U+A747", "U+A748", "U+A749", "U+A74A", "U+A74B",
      "U+A74C", "U+A74D", "U+A74E", "U+A74F", "U+A750", "U+A751", "U+A752",
      "U+A753", "U+A754", "U+A755", "U+A756", "U+A757", "U+A758", "U+A759",
      "U+A75A", "U+A75B", "U+A75C", "U+A75D", "U+A75E", "U+A75F", "U+A760",
      "U+A761", "U+A762", "U+A763", "U+A764", "U+A765", "U+A766", "U+A767",
      "U+A768", "U+A769", "U+A76A", "U+A76B", "U+A76C", "U+A76D", "U+A76E",
      "U+A76F", "U+A771", "U+A772", "U+A773", "U+A774", "U+A775", "U+A776",
      "U+A777", "U+A778", "U+A779", "U+A77A", "U+A77B", "U+A77C", "U+A77D",
      "U+A77E", "U+A77F", "U+A780", "U+A781", "U+A782", "U+A783", "U+A784",
      "U+A785", "U+A786", "U+A787", "U+A78B", "U+A78C", "U+A78D", "U+A78E",
      "U+A790", "U+A791", "U+A792", "U+A793", "U+A794", "U+A795", "U+A796",
      "U+A797", "U+A798", "U+A799", "U+A79A", "U+A79B", "U+A79C", "U+A79D",
      "U+A79E", "U+A79F", "U+A7A0", "U+A7A1", "U+A7A2", "U+A7A3", "U+A7A4",
      "U+A7A5", "U+A7A6", "U+A7A7", "U+A7A8", "U+A7A9", "U+A7AA", "U+A7AB",
      "U+A7AC", "U+A7AD", "U+A7AE", "U+A7AF", "U+A7B0", "U+A7B1", "U+A7B2",
      "U+A7B3", "U+A7B4", "U+A7B5", "U+A7B6", "U+A7B7", "U+A7B8", "U+A7B9",
      "U+A7BA", "U+A7BB", "U+A7BC", "U+A7BD", "U+A7BE", "U+A7BF", "U+A7C0",
      "U+A7C1", "U+A7C2", "U+A7C3", "U+A7C4", "U+A7C5", "U+A7C6", "U+A7C7",
      "U+A7C8", "U+A7C9", "U+A7CA", "U+A7D0", "U+A7D1", "U+A7D3", "U+A7D5",
      "U+A7D6", "U+A7D7", "U+A7D8", "U+A7D9", "U+A7F5", "U+A7F6", "U+A7FA",
      "U+AB30", "U+AB31", "U+AB32", "U+AB33", "U+AB34", "U+AB35", "U+AB36",
      "U+AB37", "U+AB38", "U+AB39", "U+AB3A", "U+AB3B", "U+AB3C", "U+AB3D",
      "U+AB3E", "U+AB3F", "U+AB40", "U+AB41", "U+AB42", "U+AB43", "U+AB44",
      "U+AB45", "U+AB46", "U+AB47", "U+AB48", "U+AB49", "U+AB4A", "U+AB4B",
      "U+AB4C", "U+AB4D", "U+AB4E", "U+AB4F", "U+AB50", "U+AB51", "U+AB52",
      "U+AB53", "U+AB54", "U+AB55", "U+AB56", "U+AB57", "U+AB58", "U+AB59",
      "U+AB5A", "U+AB60", "U+AB61", "U+AB62", "U+AB63", "U+AB64", "U+AB65",
      "U+AB66", "U+AB67", "U+AB68", "U+AB70", "U+AB71", "U+AB72", "U+AB73",
      "U+AB74", "U+AB75", "U+AB76", "U+AB77", "U+AB78", "U+AB79", "U+AB7A",
      "U+AB7B", "U+AB7C", "U+AB7D", "U+AB7E", "U+AB7F", "U+AB80", "U+AB81",
      "U+AB82", "U+AB83", "U+AB84", "U+AB85", "U+AB86", "U+AB87", "U+AB88",
      "U+AB89", "U+AB8A", "U+AB8B", "U+AB8C", "U+AB8D", "U+AB8E", "U+AB8F",
      "U+AB90", "U+AB91", "U+AB92", "U+AB93", "U+AB94", "U+AB95", "U+AB96",
      "U+AB97", "U+AB98", "U+AB99", "U+AB9A", "U+AB9B", "U+AB9C", "U+AB9D",
      "U+AB9E", "U+AB9F", "U+ABA0", "U+ABA1", "U+ABA2", "U+ABA3", "U+ABA4",
      "U+ABA5", "U+ABA6", "U+ABA7", "U+ABA8", "U+ABA9", "U+ABAA", "U+ABAB",
      "U+ABAC", "U+ABAD", "U+ABAE", "U+ABAF", "U+ABB0", "U+ABB1", "U+ABB2",
      "U+ABB3", "U+ABB4", "U+ABB5", "U+ABB6", "U+ABB7", "U+ABB8", "U+ABB9",
      "U+ABBA", "U+ABBB", "U+ABBC", "U+ABBD", "U+ABBE", "U+ABBF", "U+FB00",
      "U+FB01", "U+FB02", "U+FB03", "U+FB04", "U+FB05", "U+FB06", "U+FB13",
      "U+FB14", "U+FB15", "U+FB16", "U+FB17", "U+FF21", "U+FF22", "U+FF23",
      "U+FF24", "U+FF25", "U+FF26", "U+FF27", "U+FF28", "U+FF29", "U+FF2A",
      "U+FF2B", "U+FF2C", "U+FF2D", "U+FF2E", "U+FF2F", "U+FF30", "U+FF31",
      "U+FF32", "U+FF33", "U+FF34", "U+FF35", "U+FF36", "U+FF37", "U+FF38",
      "U+FF39", "U+FF3A", "U+FF41", "U+FF42", "U+FF43", "U+FF44", "U+FF45",
      "U+FF46", "U+FF47", "U+FF48", "U+FF49", "U+FF4A", "U+FF4B", "U+FF4C",
      "U+FF4D", "U+FF4E", "U+FF4F", "U+FF50", "U+FF51", "U+FF52", "U+FF53",
      "U+FF54", "U+FF55", "U+FF56", "U+FF57", "U+FF58", "U+FF59", "U+FF5A",
      "U+10400", "U+10401", "U+10402", "U+10403", "U+10404", "U+10405",
      "U+10406", "U+10407", "U+10408", "U+10409", "U+1040A", "U+1040B",
      "U+1040C", "U+1040D", "U+1040E", "U+1040F", "U+10410", "U+10411",
      "U+10412", "U+10413", "U+10414", "U+10415", "U+10416", "U+10417",
      "U+10418", "U+10419", "U+1041A", "U+1041B", "U+1041C", "U+1041D",
      "U+1041E", "U+1041F", "U+10420", "U+10421", "U+10422", "U+10423",
      "U+10424", "U+10425", "U+10426", "U+10427", "U+10428", "U+10429",
      "U+1042A", "U+1042B", "U+1042C", "U+1042D", "U+1042E", "U+1042F",
      "U+10430", "U+10431", "U+10432", "U+10433", "U+10434", "U+10435",
      "U+10436", "U+10437", "U+10438", "U+10439", "U+1043A", "U+1043B",
      "U+1043C", "U+1043D", "U+1043E", "U+1043F", "U+10440", "U+10441",
      "U+10442", "U+10443", "U+10444", "U+10445", "U+10446", "U+10447",
      "U+10448", "U+10449", "U+1044A", "U+1044B", "U+1044C", "U+1044D",
      "U+1044E", "U+1044F", "U+104B0", "U+104B1", "U+104B2", "U+104B3",
      "U+104B4", "U+104B5", "U+104B6", "U+104B7", "U+104B8", "U+104B9",
      "U+104BA", "U+104BB", "U+104BC", "U+104BD", "U+104BE", "U+104BF",
      "U+104C0", "U+104C1", "U+104C2", "U+104C3", "U+104C4", "U+104C5",
      "U+104C6", "U+104C7", "U+104C8", "U+104C9", "U+104CA", "U+104CB",
      "U+104CC", "U+104CD", "U+104CE", "U+104CF", "U+104D0", "U+104D1",
      "U+104D2", "U+104D3", "U+104D8", "U+104D9", "U+104DA", "U+104DB",
      "U+104DC", "U+104DD", "U+104DE", "U+104DF", "U+104E0", "U+104E1",
      "U+104E2", "U+104E3", "U+104E4", "U+104E5", "U+104E6", "U+104E7",
      "U+104E8", "U+104E9", "U+104EA", "U+104EB", "U+104EC", "U+104ED",
      "U+104EE", "U+104EF", "U+104F0", "U+104F1", "U+104F2", "U+104F3",
      "U+104F4", "U+104F5", "U+104F6", "U+104F7", "U+104F8", "U+104F9",
      "U+104FA", "U+104FB", "U+10570", "U+10571", "U+10572", "U+10573",
      "U+10574", "U+10575", "U+10576", "U+10577", "U+10578", "U+10579",
      "U+1057A", "U+1057C", "U+1057D", "U+1057E", "U+1057F", "U+10580",
      "U+10581", "U+10582", "U+10583", "U+10584", "U+10585", "U+10586",
      "U+10587", "U+10588", "U+10589", "U+1058A", "U+1058C", "U+1058D",
      "U+1058E", "U+1058F", "U+10590", "U+10591", "U+10592", "U+10594",
      "U+10595", "U+10597", "U+10598", "U+10599", "U+1059A", "U+1059B",
      "U+1059C", "U+1059D", "U+1059E", "U+1059F", "U+105A0", "U+105A1",
      "U+105A3", "U+105A4", "U+105A5", "U+105A6", "U+105A7", "U+105A8",
      "U+105A9", "U+105AA", "U+105AB", "U+105AC", "U+105AD", "U+105AE",
      "U+105AF", "U+105B0", "U+105B1", "U+105B3", "U+105B4", "U+105B5",
      "U+105B6", "U+105B7", "U+105B8", "U+105B9", "U+105BB", "U+105BC",
      "U+10C80", "U+10C81", "U+10C82", "U+10C83", "U+10C84", "U+10C85",
      "U+10C86", "U+10C87", "U+10C88", "U+10C89", "U+10C8A", "U+10C8B",
      "U+10C8C", "U+10C8D", "U+10C8E", "U+10C8F", "U+10C90", "U+10C91",
      "U+10C92", "U+10C93", "U+10C94", "U+10C95", "U+10C96", "U+10C97",
      "U+10C98", "U+10C99", "U+10C9A", "U+10C9B", "U+10C9C", "U+10C9D",
      "U+10C9E", "U+10C9F", "U+10CA0", "U+10CA1", "U+10CA2", "U+10CA3",
      "U+10CA4", "U+10CA5", "U+10CA6", "U+10CA7", "U+10CA8", "U+10CA9",
      "U+10CAA", "U+10CAB", "U+10CAC", "U+10CAD", "U+10CAE", "U+10CAF",
      "U+10CB0", "U+10CB1", "U+10CB2", "U+10CC0", "U+10CC1", "U+10CC2",
      "U+10CC3", "U+10CC4", "U+10CC5", "U+10CC6", "U+10CC7", "U+10CC8",
      "U+10CC9", "U+10CCA", "U+10CCB", "U+10CCC", "U+10CCD", "U+10CCE",
      "U+10CCF", "U+10CD0", "U+10CD1", "U+10CD2", "U+10CD3", "U+10CD4",
      "U+10CD5", "U+10CD6", "U+10CD7", "U+10CD8", "U+10CD9", "U+10CDA",
      "U+10CDB", "U+10CDC", "U+10CDD", "U+10CDE", "U+10CDF", "U+10CE0",
      "U+10CE1", "U+10CE2", "U+10CE3", "U+10CE4", "U+10CE5", "U+10CE6",
      "U+10CE7", "U+10CE8", "U+10CE9", "U+10CEA", "U+10CEB", "U+10CEC",
      "U+10CED", "U+10CEE", "U+10CEF", "U+10CF0", "U+10CF1", "U+10CF2",
      "U+118A0", "U+118A1", "U+118A2", "U+118A3", "U+118A4", "U+118A5",
      "U+118A6", "U+118A7", "U+118A8", "U+118A9", "U+118AA", "U+118AB",
      "U+118AC", "U+118AD", "U+118AE", "U+118AF", "U+118B0", "U+118B1",
      "U+118B2", "U+118B3", "U+118B4", "U+118B5", "U+118B6", "U+118B7",
      "U+118B8", "U+118B9", "U+118BA", "U+118BB", "U+118BC", "U+118BD",
      "U+118BE", "U+118BF", "U+118C0", "U+118C1", "U+118C2", "U+118C3",
      "U+118C4", "U+118C5", "U+118C6", "U+118C7", "U+118C8", "U+118C9",
      "U+118CA", "U+118CB", "U+118CC", "U+118CD", "U+118CE", "U+118CF",
      "U+118D0", "U+118D1", "U+118D2", "U+118D3", "U+118D4", "U+118D5",
      "U+118D6", "U+118D7", "U+118D8", "U+118D9", "U+118DA", "U+118DB",
      "U+118DC", "U+118DD", "U+118DE", "U+118DF", "U+16E40", "U+16E41",
      "U+16E42", "U+16E43", "U+16E44", "U+16E45", "U+16E46", "U+16E47",
      "U+16E48", "U+16E49", "U+16E4A", "U+16E4B", "U+16E4C", "U+16E4D",
      "U+16E4E", "U+16E4F", "U+16E50", "U+16E51", "U+16E52", "U+16E53",
      "U+16E54", "U+16E55", "U+16E56", "U+16E57", "U+16E58", "U+16E59",
      "U+16E5A", "U+16E5B", "U+16E5C", "U+16E5D", "U+16E5E", "U+16E5F",
      "U+16E60", "U+16E61", "U+16E62", "U+16E63", "U+16E64", "U+16E65",
      "U+16E66", "U+16E67", "U+16E68", "U+16E69", "U+16E6A", "U+16E6B",
      "U+16E6C", "U+16E6D", "U+16E6E", "U+16E6F", "U+16E70", "U+16E71",
      "U+16E72", "U+16E73", "U+16E74", "U+16E75", "U+16E76", "U+16E77",
      "U+16E78", "U+16E79", "U+16E7A", "U+16E7B", "U+16E7C", "U+16E7D",
      "U+16E7E", "U+16E7F", "U+1D400", "U+1D401", "U+1D402", "U+1D403",
      "U+1D404", "U+1D405", "U+1D406", "U+1D407", "U+1D408", "U+1D409",
      "U+1D40A", "U+1D40B", "U+1D40C", "U+1D40D", "U+1D40E", "U+1D40F",
      "U+1D410", "U+1D411", "U+1D412", "U+1D413", "U+1D414", "U+1D415",
      "U+1D416", "U+1D417", "U+1D418", "U+1D419", "U+1D41A", "U+1D41B",
      "U+1D41C", "U+1D41D", "U+1D41E", "U+1D41F", "U+1D420", "U+1D421",
      "U+1D422", "U+1D423", "U+1D424", "U+1D425", "U+1D426", "U+1D427",
      "U+1D428", "U+1D429", "U+1D42A", "U+1D42B", "U+1D42C", "U+1D42D",
      "U+1D42E", "U+1D42F", "U+1D430", "U+1D431", "U+1D432", "U+1D433",
      "U+1D434", "U+1D435", "U+1D436", "U+1D437", "U+1D438", "U+1D439",
      "U+1D43A", "U+1D43B", "U+1D43C", "U+1D43D", "U+1D43E", "U+1D43F",
      "U+1D440", "U+1D441", "U+1D442", "U+1D443", "U+1D444", "U+1D445",
      "U+1D446", "U+1D447", "U+1D448", "U+1D449", "U+1D44A", "U+1D44B",
      "U+1D44C", "U+1D44D", "U+1D44E", "U+1D44F", "U+1D450", "U+1D451",
      "U+1D452", "U+1D453", "U+1D454", "U+1D456", "U+1D457", "U+1D458",
      "U+1D459", "U+1D45A", "U+1D45B", "U+1D45C", "U+1D45D", "U+1D45E",
      "U+1D45F", "U+1D460", "U+1D461", "U+1D462", "U+1D463", "U+1D464",
      "U+1D465", "U+1D466", "U+1D467", "U+1D468", "U+1D469", "U+1D46A",
      "U+1D46B", "U+1D46C", "U+1D46D", "U+1D46E", "U+1D46F", "U+1D470",
      "U+1D471", "U+1D472", "U+1D473", "U+1D474", "U+1D475", "U+1D476",
      "U+1D477", "U+1D478", "U+1D479", "U+1D47A", "U+1D47B", "U+1D47C",
      "U+1D47D", "U+1D47E", "U+1D47F", "U+1D480", "U+1D481", "U+1D482",
      "U+1D483", "U+1D484", "U+1D485", "U+1D486", "U+1D487", "U+1D488",
      "U+1D489", "U+1D48A", "U+1D48B", "U+1D48C", "U+1D48D", "U+1D48E",
      "U+1D48F", "U+1D490", "U+1D491", "U+1D492", "U+1D493", "U+1D494",
      "U+1D495", "U+1D496", "U+1D497", "U+1D498", "U+1D499", "U+1D49A",
      "U+1D49B", "U+1D49C", "U+1D49E", "U+1D49F", "U+1D4A2", "U+1D4A5",
      "U+1D4A6", "U+1D4A9", "U+1D4AA", "U+1D4AB", "U+1D4AC", "U+1D4AE",
      "U+1D4AF", "U+1D4B0", "U+1D4B1", "U+1D4B2", "U+1D4B3", "U+1D4B4",
      "U+1D4B5", "U+1D4B6", "U+1D4B7", "U+1D4B8", "U+1D4B9", "U+1D4BB",
      "U+1D4BD", "U+1D4BE", "U+1D4BF", "U+1D4C0", "U+1D4C1", "U+1D4C2",
      "U+1D4C3", "U+1D4C5", "U+1D4C6", "U+1D4C7", "U+1D4C8", "U+1D4C9",
      "U+1D4CA", "U+1D4CB", "U+1D4CC", "U+1D4CD", "U+1D4CE", "U+1D4CF",
      "U+1D4D0", "U+1D4D1", "U+1D4D2", "U+1D4D3", "U+1D4D4", "U+1D4D5",
      "U+1D4D6", "U+1D4D7", "U+1D4D8", "U+1D4D9", "U+1D4DA", "U+1D4DB",
      "U+1D4DC", "U+1D4DD", "U+1D4DE", "U+1D4DF", "U+1D4E0", "U+1D4E1",
      "U+1D4E2", "U+1D4E3", "U+1D4E4", "U+1D4E5", "U+1D4E6", "U+1D4E7",
      "U+1D4E8", "U+1D4E9", "U+1D4EA", "U+1D4EB", "U+1D4EC", "U+1D4ED",
      "U+1D4EE", "U+1D4EF", "U+1D4F0", "U+1D4F1", "U+1D4F2", "U+1D4F3",
      "U+1D4F4", "U+1D4F5", "U+1D4F6", "U+1D4F7", "U+1D4F8", "U+1D4F9",
      "U+1D4FA", "U+1D4FB", "U+1D4FC", "U+1D4FD", "U+1D4FE", "U+1D4FF",
      "U+1D500", "U+1D501", "U+1D502", "U+1D503", "U+1D504", "U+1D505",
      "U+1D507", "U+1D508", "U+1D509", "U+1D50A", "U+1D50D", "U+1D50E",
      "U+1D50F", "U+1D510", "U+1D511", "U+1D512", "U+1D513", "U+1D514",
      "U+1D516", "U+1D517", "U+1D518", "U+1D519", "U+1D51A", "U+1D51B",
      "U+1D51C", "U+1D51E", "U+1D51F", "U+1D520", "U+1D521", "U+1D522",
      "U+1D523", "U+1D524", "U+1D525", "U+1D526", "U+1D527", "U+1D528",
      "U+1D529", "U+1D52A", "U+1D52B", "U+1D52C", "U+1D52D", "U+1D52E",
      "U+1D52F", "U+1D530", "U+1D531", "U+1D532", "U+1D533", "U+1D534",
      "U+1D535", "U+1D536", "U+1D537", "U+1D538", "U+1D539", "U+1D53B",
      "U+1D53C", "U+1D53D", "U+1D53E", "U+1D540", "U+1D541", "U+1D542",
      "U+1D543", "U+1D544", "U+1D546", "U+1D54A", "U+1D54B", "U+1D54C",
      "U+1D54D", "U+1D54E", "U+1D54F", "U+1D550", "U+1D552", "U+1D553",
      "U+1D554", "U+1D555", "U+1D556", "U+1D557", "U+1D558", "U+1D559",
      "U+1D55A", "U+1D55B", "U+1D55C", "U+1D55D", "U+1D55E", "U+1D55F",
      "U+1D560", "U+1D561", "U+1D562", "U+1D563", "U+1D564", "U+1D565",
      "U+1D566", "U+1D567", "U+1D568", "U+1D569", "U+1D56A", "U+1D56B",
      "U+1D56C", "U+1D56D", "U+1D56E", "U+1D56F", "U+1D570", "U+1D571",
      "U+1D572", "U+1D573", "U+1D574", "U+1D575", "U+1D576", "U+1D577",
      "U+1D578", "U+1D579", "U+1D57A", "U+1D57B", "U+1D57C", "U+1D57D",
      "U+1D57E", "U+1D57F", "U+1D580", "U+1D581", "U+1D582", "U+1D583",
      "U+1D584", "U+1D585", "U+1D586", "U+1D587", "U+1D588", "U+1D589",
      "U+1D58A", "U+1D58B", "U+1D58C", "U+1D58D", "U+1D58E", "U+1D58F",
      "U+1D590", "U+1D591", "U+1D592", "U+1D593", "U+1D594", "U+1D595",
      "U+1D596", "U+1D597", "U+1D598", "U+1D599", "U+1D59A", "U+1D59B",
      "U+1D59C", "U+1D59D", "U+1D59E", "U+1D59F", "U+1D5A0", "U+1D5A1",
      "U+1D5A2", "U+1D5A3", "U+1D5A4", "U+1D5A5", "U+1D5A6", "U+1D5A7",
      "U+1D5A8", "U+1D5A9", "U+1D5AA", "U+1D5AB", "U+1D5AC", "U+1D5AD",
      "U+1D5AE", "U+1D5AF", "U+1D5B0", "U+1D5B1", "U+1D5B2", "U+1D5B3",
      "U+1D5B4", "U+1D5B5", "U+1D5B6", "U+1D5B7", "U+1D5B8", "U+1D5B9",
      "U+1D5BA", "U+1D5BB", "U+1D5BC", "U+1D5BD", "U+1D5BE", "U+1D5BF",
      "U+1D5C0", "U+1D5C1", "U+1D5C2", "U+1D5C3", "U+1D5C4", "U+1D5C5",
      "U+1D5C6", "U+1D5C7", "U+1D5C8", "U+1D5C9", "U+1D5CA", "U+1D5CB",
      "U+1D5CC", "U+1D5CD", "U+1D5CE", "U+1D5CF", "U+1D5D0", "U+1D5D1",
      "U+1D5D2", "U+1D5D3", "U+1D5D4", "U+1D5D5", "U+1D5D6", "U+1D5D7",
      "U+1D5D8", "U+1D5D9", "U+1D5DA", "U+1D5DB", "U+1D5DC", "U+1D5DD",
      "U+1D5DE", "U+1D5DF", "U+1D5E0", "U+1D5E1", "U+1D5E2", "U+1D5E3",
      "U+1D5E4", "U+1D5E5", "U+1D5E6", "U+1D5E7", "U+1D5E8", "U+1D5E9",
      "U+1D5EA", "U+1D5EB", "U+1D5EC", "U+1D5ED", "U+1D5EE", "U+1D5EF",
      "U+1D5F0", "U+1D5F1", "U+1D5F2", "U+1D5F3", "U+1D5F4", "U+1D5F5",
      "U+1D5F6", "U+1D5F7", "U+1D5F8", "U+1D5F9", "U+1D5FA", "U+1D5FB",
      "U+1D5FC", "U+1D5FD", "U+1D5FE", "U+1D5FF", "U+1D600", "U+1D601",
      "U+1D602", "U+1D603", "U+1D604", "U+1D605", "U+1D606", "U+1D607",
      "U+1D608", "U+1D609", "U+1D60A", "U+1D60B", "U+1D60C", "U+1D60D",
      "U+1D60E", "U+1D60F", "U+1D610", "U+1D611", "U+1D612", "U+1D613",
      "U+1D614", "U+1D615", "U+1D616", "U+1D617", "U+1D618", "U+1D619",
      "U+1D61A", "U+1D61B", "U+1D61C", "U+1D61D", "U+1D61E", "U+1D61F",
      "U+1D620", "U+1D621", "U+1D622", "U+1D623", "U+1D624", "U+1D625",
      "U+1D626", "U+1D627", "U+1D628", "U+1D629", "U+1D62A", "U+1D62B",
      "U+1D62C", "U+1D62D", "U+1D62E", "U+1D62F", "U+1D630", "U+1D631",
      "U+1D632", "U+1D633", "U+1D634", "U+1D635", "U+1D636", "U+1D637",
      "U+1D638", "U+1D639", "U+1D63A", "U+1D63B", "U+1D63C", "U+1D63D",
      "U+1D63E", "U+1D63F", "U+1D640", "U+1D641", "U+1D642", "U+1D643",
      "U+1D644", "U+1D645", "U+1D646", "U+1D647", "U+1D648", "U+1D649",
      "U+1D64A", "U+1D64B", "U+1D64C", "U+1D64D", "U+1D64E", "U+1D64F",
      "U+1D650", "U+1D651", "U+1D652", "U+1D653", "U+1D654", "U+1D655",
      "U+1D656", "U+1D657", "U+1D658", "U+1D659", "U+1D65A", "U+1D65B",
      "U+1D65C", "U+1D65D", "U+1D65E", "U+1D65F", "U+1D660", "U+1D661",
      "U+1D662", "U+1D663", "U+1D664", "U+1D665", "U+1D666", "U+1D667",
      "U+1D668", "U+1D669", "U+1D66A", "U+1D66B", "U+1D66C", "U+1D66D",
      "U+1D66E", "U+1D66F", "U+1D670", "U+1D671", "U+1D672", "U+1D673",
      "U+1D674", "U+1D675", "U+1D676", "U+1D677", "U+1D678", "U+1D679",
      "U+1D67A", "U+1D67B", "U+1D67C", "U+1D67D", "U+1D67E", "U+1D67F",
      "U+1D680", "U+1D681", "U+1D682", "U+1D683", "U+1D684", "U+1D685",
      "U+1D686", "U+1D687", "U+1D688", "U+1D689", "U+1D68A", "U+1D68B",
      "U+1D68C", "U+1D68D", "U+1D68E", "U+1D68F", "U+1D690", "U+1D691",
      "U+1D692", "U+1D693", "U+1D694", "U+1D695", "U+1D696", "U+1D697",
      "U+1D698", "U+1D699", "U+1D69A", "U+1D69B", "U+1D69C", "U+1D69D",
      "U+1D69E", "U+1D69F", "U+1D6A0", "U+1D6A1", "U+1D6A2", "U+1D6A3",
      "U+1D6A4", "U+1D6A5", "U+1D6A8", "U+1D6A9", "U+1D6AA", "U+1D6AB",
      "U+1D6AC", "U+1D6AD", "U+1D6AE", "U+1D6AF", "U+1D6B0", "U+1D6B1",
      "U+1D6B2", "U+1D6B3", "U+1D6B4", "U+1D6B5", "U+1D6B6", "U+1D6B7",
      "U+1D6B8", "U+1D6B9", "U+1D6BA", "U+1D6BB", "U+1D6BC", "U+1D6BD",
      "U+1D6BE", "U+1D6BF", "U+1D6C0", "U+1D6C2", "U+1D6C3", "U+1D6C4",
      "U+1D6C5", "U+1D6C6", "U+1D6C7", "U+1D6C8", "U+1D6C9", "U+1D6CA",
      "U+1D6CB", "U+1D6CC", "U+1D6CD", "U+1D6CE", "U+1D6CF", "U+1D6D0",
      "U+1D6D1", "U+1D6D2", "U+1D6D3", "U+1D6D4", "U+1D6D5", "U+1D6D6",
      "U+1D6D7", "U+1D6D8", "U+1D6D9", "U+1D6DA", "U+1D6DC", "U+1D6DD",
      "U+1D6DE", "U+1D6DF", "U+1D6E0", "U+1D6E1", "U+1D6E2", "U+1D6E3",
      "U+1D6E4", "U+1D6E5", "U+1D6E6", "U+1D6E7", "U+1D6E8", "U+1D6E9",
      "U+1D6EA", "U+1D6EB", "U+1D6EC", "U+1D6ED", "U+1D6EE", "U+1D6EF",
      "U+1D6F0", "U+1D6F1", "U+1D6F2", "U+1D6F3", "U+1D6F4", "U+1D6F5",
      "U+1D6F6", "U+1D6F7", "U+1D6F8", "U+1D6F9", "U+1D6FA", "U+1D6FC",
      "U+1D6FD", "U+1D6FE", "U+1D6FF", "U+1D700", "U+1D701", "U+1D702",
      "U+1D703", "U+1D704", "U+1D705", "U+1D706", "U+1D707", "U+1D708",
      "U+1D709", "U+1D70A", "U+1D70B", "U+1D70C", "U+1D70D", "U+1D70E",
      "U+1D70F", "U+1D710", "U+1D711", "U+1D712", "U+1D713", "U+1D714",
      "U+1D716", "U+1D717", "U+1D718", "U+1D719", "U+1D71A", "U+1D71B",
      "U+1D71C", "U+1D71D", "U+1D71E", "U+1D71F", "U+1D720", "U+1D721",
      "U+1D722", "U+1D723", "U+1D724", "U+1D725", "U+1D726", "U+1D727",
      "U+1D728", "U+1D729", "U+1D72A", "U+1D72B", "U+1D72C", "U+1D72D",
      "U+1D72E", "U+1D72F", "U+1D730", "U+1D731", "U+1D732", "U+1D733",
      "U+1D734", "U+1D736", "U+1D737", "U+1D738", "U+1D739", "U+1D73A",
      "U+1D73B", "U+1D73C", "U+1D73D", "U+1D73E", "U+1D73F", "U+1D740",
      "U+1D741", "U+1D742", "U+1D743", "U+1D744", "U+1D745", "U+1D746",
      "U+1D747", "U+1D748", "U+1D749", "U+1D74A", "U+1D74B", "U+1D74C",
      "U+1D74D", "U+1D74E", "U+1D750", "U+1D751", "U+1D752", "U+1D753",
      "U+1D754", "U+1D755", "U+1D756", "U+1D757", "U+1D758", "U+1D759",
      "U+1D75A", "U+1D75B", "U+1D75C", "U+1D75D", "U+1D75E", "U+1D75F",
      "U+1D760", "U+1D761", "U+1D762", "U+1D763", "U+1D764", "U+1D765",
      "U+1D766", "U+1D767", "U+1D768", "U+1D769", "U+1D76A", "U+1D76B",
      "U+1D76C", "U+1D76D", "U+1D76E", "U+1D770", "U+1D771", "U+1D772",
      "U+1D773", "U+1D774", "U+1D775", "U+1D776", "U+1D777", "U+1D778",
      "U+1D779", "U+1D77A", "U+1D77B", "U+1D77C", "U+1D77D", "U+1D77E",
      "U+1D77F", "U+1D780", "U+1D781", "U+1D782", "U+1D783", "U+1D784",
      "U+1D785", "U+1D786", "U+1D787", "U+1D788", "U+1D78A", "U+1D78B",
      "U+1D78C", "U+1D78D", "U+1D78E", "U+1D78F", "U+1D790", "U+1D791",
      "U+1D792", "U+1D793", "U+1D794", "U+1D795", "U+1D796", "U+1D797",
      "U+1D798", "U+1D799", "U+1D79A", "U+1D79B", "U+1D79C", "U+1D79D",
      "U+1D79E", "U+1D79F", "U+1D7A0", "U+1D7A1", "U+1D7A2", "U+1D7A3",
      "U+1D7A4", "U+1D7A5", "U+1D7A6", "U+1D7A7", "U+1D7A8", "U+1D7AA",
      "U+1D7AB", "U+1D7AC", "U+1D7AD", "U+1D7AE", "U+1D7AF", "U+1D7B0",
      "U+1D7B1", "U+1D7B2", "U+1D7B3", "U+1D7B4", "U+1D7B5", "U+1D7B6",
      "U+1D7B7", "U+1D7B8", "U+1D7B9", "U+1D7BA", "U+1D7BB", "U+1D7BC",
      "U+1D7BD", "U+1D7BE", "U+1D7BF", "U+1D7C0", "U+1D7C1", "U+1D7C2",
      "U+1D7C4", "U+1D7C5", "U+1D7C6", "U+1D7C7", "U+1D7C8", "U+1D7C9",
      "U+1D7CA", "U+1D7CB", "U+1DF00", "U+1DF01", "U+1DF02", "U+1DF03",
      "U+1DF04", "U+1DF05", "U+1DF06", "U+1DF07", "U+1DF08", "U+1DF09",
      "U+1DF0B", "U+1DF0C", "U+1DF0D", "U+1DF0E", "U+1DF0F", "U+1DF10",
      "U+1DF11", "U+1DF12", "U+1DF13", "U+1DF14", "U+1DF15", "U+1DF16",
      "U+1DF17", "U+1DF18", "U+1DF19", "U+1DF1A", "U+1DF1B", "U+1DF1C",
      "U+1DF1D", "U+1DF1E", "U+1E900", "U+1E901", "U+1E902", "U+1E903",
      "U+1E904", "U+1E905", "U+1E906", "U+1E907", "U+1E908", "U+1E909",
      "U+1E90A", "U+1E90B", "U+1E90C", "U+1E90D", "U+1E90E", "U+1E90F",
      "U+1E910", "U+1E911", "U+1E912", "U+1E913", "U+1E914", "U+1E915",
      "U+1E916", "U+1E917", "U+1E918", "U+1E919", "U+1E91A", "U+1E91B",
      "U+1E91C", "U+1E91D", "U+1E91E", "U+1E91F", "U+1E920", "U+1E921",
      "U+1E922", "U+1E923", "U+1E924", "U+1E925", "U+1E926", "U+1E927",
      "U+1E928", "U+1E929", "U+1E92A", "U+1E92B", "U+1E92C", "U+1E92D",
      "U+1E92E", "U+1E92F", "U+1E930", "U+1E931", "U+1E932", "U+1E933",
      "U+1E934", "U+1E935", "U+1E936", "U+1E937", "U+1E938", "U+1E939",
      "U+1E93A", "U+1E93B", "U+1E93C", "U+1E93D", "U+1E93E", "U+1E93F",
      "U+1E940", "U+1E941", "U+1E942", "U+1E943", "U+1F130", "U+1F131",
      "U+1F132", "U+1F133", "U+1F134", "U+1F135", "U+1F136", "U+1F137",
      "U+1F138", "U+1F139", "U+1F13A", "U+1F13B", "U+1F13C", "U+1F13D",
      "U+1F13E", "U+1F13F", "U+1F140", "U+1F141", "U+1F142", "U+1F143",
      "U+1F144", "U+1F145", "U+1F146", "U+1F147", "U+1F148", "U+1F149",
      "U+1F150", "U+1F151", "U+1F152", "U+1F153", "U+1F154", "U+1F155",
      "U+1F156", "U+1F157", "U+1F158", "U+1F159", "U+1F15A", "U+1F15B",
      "U+1F15C", "U+1F15D", "U+1F15E", "U+1F15F", "U+1F160", "U+1F161",
      "U+1F162", "U+1F163", "U+1F164", "U+1F165", "U+1F166", "U+1F167",
      "U+1F168", "U+1F169", "U+1F170", "U+1F171", "U+1F172", "U+1F173",
      "U+1F174", "U+1F175", "U+1F176", "U+1F177", "U+1F178", "U+1F179",
      "U+1F17A", "U+1F17B", "U+1F17C", "U+1F17D", "U+1F17E", "U+1F17F",
      "U+1F180", "U+1F181", "U+1F182", "U+1F183", "U+1F184", "U+1F185",
      "U+1F186", "U+1F187", "U+1F188", "U+1F189" }

\* str.lower(): the capital sigma at index i of str is lower-cased to the
\* final sigma U+03C2: the nearest character before it that is not skipped
\* is cased, and the nearest one after it, if any, is not
FinalSigma(str, i) ==
    LET before == {j \in 1..(i - 1) : str[j] \notin CaseIgnorable}
        after  == {j \in (i + 1)..Len(str) : str[j] \notin CaseIgnorable}
    IN  /\ before # {}
        /\ str[CHOOSE j \in before : \A k \in before : k <= j] \in CasedNotIgnorable
        /\ \/ after = {}
           \/ str[CHOOSE j \in after : \A k \in after : j <= k] \notin CasedNotIgnorable

\* str.lower()
RECURSIVE LowerFrom(_, _)
LowerFrom(str, i) ==
    IF i > Len(str) THEN <<>>
    ELSE (IF str[i] = "U+03A3" /\ FinalSigma(str, i) THEN <<"U+03C2">>
          ELSE LowerChar(str[i])) \o LowerFrom(str, i + 1)

LowerStr(str) == LowerFrom(str, 1)

\* c is one of the characters str.strip() and str.split() take for whitespace
IsWs(c) ==
    c \in
    { "\t", "\n", "", "U+000B", "\f", "\r", "", "U+001C", "", "U+001D",
      "", "U+001E", "", "U+001F", " ", "", "U+0085", " ", "U+00A0",
      "U+1680", "U+2000", "U+2001", "U+2002", "U+2003", "U+2004", "U+2005",
      "U+2006", "U+2007", "U+2008", "U+2009", "U+200A", "U+2028", "U+2029",
      "U+202F", "U+205F", "U+3000" }

RECURSIVE LStripChars(_)
LStripChars(str) ==
    IF str = <<>> THEN <<>>
    ELSE IF IsWs(Head(str)) THEN LStripChars(Tail(str)) ELSE str

RECURSIVE RStripChars(_)
RStripChars(str) ==
    IF str = <<>> THEN <<>>
    ELSE IF IsWs(str[Len(str)]) THEN RStripChars(SubSeq(str, 1, Len(str) - 1)) ELSE str

\* str.strip() on a token text
StripChars(str) == RStripChars(LStripChars(str))

\* sep.join(parts)
RECURSIVE Join(_, _)
Join(parts, sep) ==
    IF parts = <<>> THEN <<>>
    ELSE IF Len(parts) = 1 THEN parts[1]
    ELSE parts[1] \o sep \o Join(Tail(parts), sep)

\* needle in hay
Contains(hay, needle) ==
    \E i \in 1..(Len(hay) - Len(needle) + 1) :
        SubSeq(hay, i, i + Len(needle) - 1) = needle

\* str.replace(old, new)
RECURSIVE ReplaceAll(_, _, _)
ReplaceAll(str, old, new) ==
    IF Len(str) < Len(old) THEN str
    ELSE IF SubSeq(str, 1, Len(old)) = old
        THEN new \o ReplaceAll(SubSeq(str, Len(old) + 1, Len(str)), old, new)
    ELSE <<Head(str)>> \o ReplaceAll(Tail(str), old, new)

\* the characters the pattern \d matches (the decimal digits of every
\* script), those of value 0 first, those of value 9 last
DigitsByValue ==
<<
    { "0", "U+0660", "U+06F0", "U+07C0", "U+0966", "U+09E6", "U+0A66",
      "U+0AE6", "U+0B66", "U+0BE6", "U+0C66", "U+0CE6", "U+0D66", "U+0DE6",
      "U+0E50", "U+0ED0", "U+0F20", "U+1040", "U+1090", "U+17E0", "U+1810",
      "U+1946", "U+19D0", "U+1A80", "U+1A90", "U+1B50", "U+1BB0", "U+1C40",
      "U+1C50", "U+A620", "U+A8D0", "U+A900", "U+A9D0", "U+A9F0", "U+AA50",
      "U+ABF0", "U+FF10", "U+104A0", "U+10D30", "U+11066", "U+110F0",
      "U+11136", "U+111D0", "U+112F0", "U+11450", "U+114D0", "U+11650",
      "U+116C0", "U+11730", "U+118E0", "U+11950", "U+11C50", "U+11D50",
      "U+11DA0", "U+16A60", "U+16AC0", "U+16B50", "U+1D7CE", "U+1D7D8",
      "U+1D7E2", "U+1D7EC", "U+1D7F6", "U+1E140", "U+1E2F0", "U+1E950",
      "U+1FBF0" },
    { "1", "U+0661", "U+06F1", "U+07C1", "U+0967", "U+09E7", "U+0A67",
      "U+0AE7", "U+0B67", "U+0BE7", "U+0C67", "U+0CE7", "U+0D67", "U+0DE7",
      "U+0E51", "U+0ED1", "U+0F21", "U+1041", "U+1091", "U+17E1", "U+1811",
      "U+1947", "U+19D1", "U+1A81", "U+1A91", "U+1B51", "U+1BB1", "U+1C41",
      "U+1C51", "U+A621", "U+A8D1", "U+A901", "U+A9D1", "U+A9F1", "U+AA51",
      "U+ABF1", "U+FF11", "U+104A1", "U+10D31", "U+11067", "U+110F1",
      "U+11137", "U+111D1", "U+112F1", "U+11451", "U+114D1", "U+11651",
      "U+116C1", "U+11731", "U+118E1", "U+11951", "U+11C51", "U+11D51",
      "U+11DA1", "U+16A61", "U+16AC1", "U+16B51", "U+1D7CF", "U+1D7D9",
      "U+1D7E3", "U+1D7ED", "U+1D7F7", "U+1E141", "U+1E2F1", "U+1E951",
      "U+1FBF1" },
    { "2", "U+0662", "U+06F2", "U+07C2", "U+0968", "U+09E8", "U+0A68",
      "U+0AE8", "U+0B68", "U+0BE8", "U+0C68", "U+0CE8", "U+0D68", "U+0DE8",
      "U+0E52", "U+0ED2", "U+0F22", "U+1042", "U+1092", "U+17E2", "U+1812",
      "U+1948", "U+19D2", "U+1A82", "U+1A92", "U+1B52", "U+1BB2", "U+1C42",
      "U+1C52", "U+A622", "U+A8D2", "U+A902", "U+A9D2", "U+A9F2", "U+AA52",
      "U+ABF2", "U+FF12", "U+104A2", "U+10D32", "U+11068", "U+110F2",
      "U+11138", "U+111D2", "U+112F2", "U+11452", "U+114D2", "U+11652",
      "U+116C2", "U+11732", "U+118E2", "U+11952", "U+11C52", "U+11D52",
      "U+11DA2", "U+16A62", "U+16AC2", "U+16B52", "U+1D7D0", "U+1D7DA",
      "U+1D7E4", "U+1D7EE", "U+1D7F8", "U+1E142", "U+1E2F2", "U+1E952",
      "U+1FBF2" },
    { "3", "U+0663", "U+06F3", "U+07C3", "U+0969", "U+09E9", "U+0A69",
      "U+0AE9", "U+0B69", "U+0BE9", "U+0C69", "U+0CE9", "U+0D69", "U+0DE9",
      "U+0E53", "U+0ED3", "U+0F23", "U+1043", "U+1093", "U+17E3", "U+1813",
      "U+1949", "U+19D3", "U+1A83", "U+1A93", "U+1B53", "U+1BB3", "U+1C43",
      "U+1C53", "U+A623", "U+A8D3", "U+A903", "U+A9D3", "U+A9F3", "U+AA53",
      "U+ABF3", "U+FF13", "U+104A3", "U+10D33", "U+11069", "U+110F3",
      "U+11139", "U+111D3", "U+112F3", "U+11453", "U+114D3", "U+11653",
      "U+116C3", "U+11733", "U+118E3", "U+11953", "U+11C53", "U+11D53",
      "U+11DA3", "U+16A63", "U+16AC3", "U+16B53", "U+1D7D1", "U+1D7DB",
      "U+1D7E5", "U+1D7EF", "U+1D7F9", "U+1E143", "U+1E2F3", "U+1E953",
      "U+1FBF3" },
    { "4", "U+0664", "U+06F4", "U+07C4", "U+096A", "U+09EA", "U+0A6A",
      "U+0AEA", "U+0B6A", "U+0BEA", "U+0C6A", "U+0CEA", "U+0D6A", "U+0DEA",
      "U+0E54", "U+0ED4", "U+0F24", "U+1044", "U+1094", "U+17E4", "U+1814",
      "U+194A", "U+19D4", "U+1A84", "U+1A94", "U+1B54", "U+1BB4", "U+1C44",
      "U+1C54", "U+A624", "U+A8D4", "U+A904", "U+A9D4", "U+A9F4", "U+AA54",
      "U+ABF4", "U+FF14", "U+104A4", "U+10D34", "U+1106A", "U+110F4",
      "U+1113A", "U+111D4", "U+112F4", "U+11454", "U+114D4", "U+11654",
      "U+116C4", "U+11734", "U+118E4", "U+11954", "U+11C54", "U+11D54",
      "U+11DA4", "U+16A64", "U+16AC4", "U+16B54", "U+1D7D2", "U+1D7DC",
      "U+1D7E6", "U+1D7F0", "U+1D7FA", "U+1E144", "U+1E2F4", "U+1E954",
      "U+1FBF4" },
    { "5", "U+0665", "U+06F5", "U+07C5", "U+096B", "U+09EB", "U+0A6B",
      "U+0AEB", "U+0B6B", "U+0BEB", "U+0C6B", "U+0CEB", "U+0D6B", "U+0DEB",
      "U+0E55", "U+0ED5", "U+0F25", "U+1045", "U+1095", "U+17E5", "U+1815",
      "U+194B", "U+19D5", "U+1A85", "U+1A95", "U+1B55", "U+1BB5", "U+1C45",
      "U+1C55", "U+A625", "U+A8D5", "U+A905", "U+A9D5", "U+A9F5", "U+AA55",
      "U+ABF5", "U+FF15", "U+104A5", "U+10D35", "U+1106B", "U+110F5",
      "U+1113B", "U+111D5", "U+112F5", "U+11455", "U+114D5", "U+11655",
      "U+116C5", "U+11735", "U+118E5", "U+11955", "U+11C55", "U+11D55",
      "U+11DA5", "U+16A65", "U+16AC5", "U+16B55", "U+1D7D3", "U+1D7DD",
      "U+1D7E7", "U+1D7F1", "U+1D7FB", "U+1E145", "U+1E2F5", "U+1E955",
      "U+1FBF5" },
    { "6", "U+0666", "U+06F6", "U+07C6", "U+096C", "U+09EC", "U+0A6C",
      "U+0AEC", "U+0B6C", "U+0BEC", "U+0C6C", "U+0CEC", "U+0D6C", "U+0DEC",
      "U+0E56", "U+0ED6", "U+0F26", "U+1046", "U+1096", "U+17E6", "U+1816",
      "U+194C", "U+19D6", "U+1A86", "U+1A96", "U+1B56", "U+1BB6", "U+1C46",
      "U+1C56", "U+A626", "U+A8D6", "U+A906", "U+A9D6", "U+A9F6", "U+AA56",
      "U+ABF6", "U+FF16", "U+104A6", "U+10D36", "U+1106C", "U+110F6",
      "U+1113C", "U+111D6", "U+112F6", "U+11456", "U+114D6", "U+11656",
      "U+116C6", "U+11736", "U+118E6", "U+11956", "U+11C56", "U+11D56",
      "U+11DA6", "U+16A66", "U+16AC6", "U+16B56", "U+1D7D4", "U+1D7DE",
      "U+1D7E8", "U+1D7F2", "U+1D7FC", "U+1E146", "U+1E2F6", "U+1E956",
      "U+1FBF6" },
    { "7", "U+0667", "U+06F7", "U+07C7", "U+096D", "U+09ED", "U+0A6D",
      "U+0AED", "U+0B6D", "U+0BED", "U+0C6D", "U+0CED", "U+0D6D", "U+0DED",
      "U+0E57", "U+0ED7", "U+0F27", "U+1047", "U+1097", "U+17E7", "U+1817",
      "U+194D", "U+19D7", "U+1A87", "U+1A97", "U+1B57", "U+1BB7", "U+1C47",
      "U+1C57", "U+A627", "U+A8D7", "U+A907", "U+A9D7", "U+A9F7", "U+AA57",
      "U+ABF7", "U+FF17", "U+104A7", "U+10D37", "U+1106D", "U+110F7",
      "U+1113D", "U+111D7", "U+112F7", "U+11457", "U+114D7", "U+11657",
      "U+116C7", "U+11737", "U+118E7", "U+11957", "U+11C57", "U+11D57",
      "U+11DA7", "U+16A67", "U+16AC7", "U+16B57", "U+1D7D5", "U+1D7DF",
      "U+1D7E9", "U+1D7F3", "U+1D7FD", "U+1E147", "U+1E2F7", "U+1E957",
      "U+1FBF7" },
    { "8", "U+0668", "U+06F8", "U+07C8", "U+096E", "U+09EE", "U+0A6E",
      "U+0AEE", "U+0B6E", "U+0BEE", "U+0C6E", "U+0CEE", "U+0D6E", "U+0DEE",
      "U+0E58", "U+0ED8", "U+0F28", "U+1048", "U+1098", "U+17E8", "U+1818",
      "U+194E", "U+19D8", "U+1A88", "U+1A98", "U+1B58", "U+1BB8", "U+1C48",
      "U+1C58", "U+A628", "U+A8D8", "U+A908", "U+A9D8", "U+A9F8", "U+AA58",
      "U+ABF8", "U+FF18", "U+104A8", "U+10D38", "U+1106E", "U+110F8",
      "U+1113E", "U+111D8", "U+112F8", "U+11458", "U+114D8", "U+11658",
      "U+116C8", "U+11738", "U+118E8", "U+11958", "U+11C58", "U+11D58",
      "U+11DA8", "U+16A68", "U+16AC8", "U+16B58", "U+1D7D6", "U+1D7E0",
      "U+1D7EA", "U+1D7F4", "U+1D7FE", "U+1E148", "U+1E2F8", "U+1E958",
      "U+1FBF8" },
    { "9", "U+0669", "U+06F9", "U+07C9", "U+096F", "U+09EF", "U+0A6F",
      "U+0AEF", "U+0B6F", "U+0BEF", "U+0C6F", "U+0CEF", "U+0D6F", "U+0DEF",
      "U+0E59", "U+0ED9", "U+0F29", "U+1049", "U+1099", "U+17E9", "U+1819",
      "U+194F", "U+19D9", "U+1A89", "U+1A99", "U+1B59", "U+1BB9", "U+1C49",
      "U+1C59", "U+A629", "U+A8D9", "U+A909", "U+A9D9", "U+A9F9", "U+AA59",
      "U+ABF9", "U+FF19", "U+104A9", "U+10D39", "U+1106F", "U+110F9",
      "U+1113F", "U+111D9", "U+112F9", "U+11459", "U+114D9", "U+11659",
      "U+116C9", "U+11739", "U+118E9", "U+11959", "U+11C59", "U+11D59",
      "U+11DA9", "U+16A69", "U+16AC9", "U+16B59", "U+1D7D7", "U+1D7E1",
      "U+1D7EB", "U+1D7F5", "U+1D7FF", "U+1E149", "U+1E2F9", "U+1E959",
      "U+1FBF9" } >>

DigitChars == UNION {DigitsByValue[i] : i \in DOMAIN DigitsByValue}
IsDigit(c) == c \in DigitChars

\* the value int() and float() give the digit c

\* value of a digit string
RECURSIVE ParseNat(_)
ParseNat(ds) ==
    IF ds = <<>> THEN 0
    ELSE ParseNat(SubSeq(ds, 1, Len(ds) - 1)) * 10
             + (CHOOSE i \in DOMAIN DigitsByValue : ds[Len(ds)] \in DigitsByValue[i]) - 1

RECURSIVE Pow10(_)
Pow10(k) == IF k = 0 THEN 1 ELSE 10 * Pow10(k - 1)

\* last index of the run of digits of str that starts at index i
RECURSIVE DigitRunEnd(_, _)
DigitRunEnd(str, i) ==
    IF i + 1 <= Len(str) /\ IsDigit(str[i + 1]) THEN DigitRunEnd(str, i + 1) ELSE i

\* re.findall(r"\d+(?:[.,]\d+)?", joined)[0]: the integer digits and the
\* digits after the separator of the leftmost match
FirstNumber(joined) ==
    IF \A i \in DOMAIN joined : ~IsDigit(joined[i])
        THEN [found |-> FALSE, int |-> <<>>, sep |-> FALSE, frac |-> <<>>]
    ELSE LET b == CHOOSE i \in DOMAIN joined :
                      /\ IsDigit(joined[i])
                      /\ \A j \in 1..(i - 1) : ~IsDigit(joined[j])
             e == DigitRunEnd(joined, b)
             hasFrac == /\ e + 2 <= Len(joined)
                        /\ joined[e + 1] \in {".", ","}
                        /\ IsDigit(joined[e + 2])
         IN  [found |-> TRUE,
              int   |-> SubSeq(joined, b, e),
              sep   |-> hasFrac,
              frac  |-> IF hasFrac
                            THEN SubSeq(joined, e + 2, DigitRunEnd(joined, e + 2))
                            ELSE <<>>]

\* mutant of SafeNumber: the digits after the separator are read as part of
\* the integer ("10.00" reads as 1000)
SafeNumber_NoScale(parts, default, cast) ==
    LET m == FirstNumber(Join(parts, <<" ">>))
    IN  IF ~m.found THEN default
        ELSE IF cast = "int"
            THEN IF m.sep THEN default
                 ELSE Frac(ParseNat(m.int), 1)
        ELSE Frac(ParseNat(m.int \o m.frac), 1)

\* mutant of SafeNumber: a bucket without a number reads as 0 whatever the
\* caller's default
SafeNumber_ZeroDefault(parts, default, cast) ==
    LET m == FirstNumber(Join(parts, <<" ">>))
    IN  IF ~m.found THEN Zero
        ELSE IF cast = "int"
            THEN IF m.sep THEN default
                 ELSE Frac(ParseNat(m.int), 1)
        ELSE Frac(ParseNat(m.int \o m.frac), Pow10(Len(m.frac)))

\* mutant of SafeNumber: the integer cast of a number with a decimal part
\* gives its integer part
SafeNumber_Truncating(parts, default, cast) ==
    LET m == FirstNumber(Join(parts, <<" ">>))
    IN  IF ~m.found THEN default
        ELSE IF cast = "int"
            THEN Frac(ParseNat(m.int), 1)
        ELSE Frac(ParseNat(m.int \o m.frac), Pow10(Len(m.frac)))

\* BBoxTableParser._safe_number; cast is "int" or "float", the result is
\* the fraction that stands for the number returned
SafeNumber(parts, default, cast) ==
    LET m == FirstNumber(Join(parts, <<" ">>))
    IN  IF ~m.found THEN default
        ELSE IF cast = "int"
            THEN IF m.sep THEN default      \* int("2.5") raises ValueError
                 ELSE Frac(ParseNat(m.int), 1)
        ELSE Frac(ParseNat(m.int \o m.frac), Pow10(Len(m.frac)))

\* sorted(tokens, key=lambda t: t.center_y): stable
RECURSIVE InsertByY(_, _)
InsertByY(sorted, tok) ==
    IF sorted = <<>> THEN <<tok>>
    ELSE IF sorted[Len(sorted)].center_y <= tok.center_y THEN Append(sorted, tok)
    ELSE Append(InsertByY(SubSeq(sorted, 1, Len(sorted) - 1), tok), sorted[Len(sorted)])

RECURSIVE SortByY(_)
SortByY(toks) ==
    IF toks = <<>> THEN <<>>
    ELSE InsertByY(SortByY(SubSeq(toks, 1, Len(toks) - 1)), toks[Len(toks)])

AbsDiff(a, b) == IF a >= b THEN a - b ELSE b - a

\* mutant of PlaceToken: the token is compared with the last member of each
\* row instead of the first
PlaceToken_LastMember(rs, tok) ==
    LET fits == {i \in DOMAIN rs :
                    AbsDiff(rs[i][Len(rs[i])].center_y, tok.center_y) < Y_THRESHOLD}
    IN  IF fits = {} THEN Append(rs, <<tok>>)
        ELSE LET first == CHOOSE i \in fits : \A j \in fits : i <= j
             IN  [rs EXCEPT ![first] = Append(rs[first], tok)]

\* mutant of PlaceToken: a token exactly y_threshold away from the first
\* token of a row still joins the row
PlaceToken_Inclusive(rs, tok) ==
    LET fits == {i \in DOMAIN rs : AbsDiff(rs[i][1].center_y, tok.center_y) <= Y_THRESHOLD}
    IN  IF fits = {} THEN Append(rs, <<tok>>)
        ELSE LET first == CHOOSE i \in fits : \A j \in fits : i <= j
             IN  [rs EXCEPT ![first] = Append(rs[first], tok)]

\* the body of the loop of _group_rows for one token
PlaceToken(rs, tok) ==
    LET fits == {i \in DOMAIN rs : AbsDiff(rs[i][1].center_y, tok.center_y) < Y_THRESHOLD}
    IN  IF fits = {} THEN Append(rs, <<tok>>)
        ELSE LET first == CHOOSE i \in fits : \A j \in fits : i <= j
             IN  [rs EXCEPT ![first] = Append(rs[first], tok)]

RECURSIVE PlaceAll(_, _)
PlaceAll(rs, toks) ==
    IF toks = <<>> THEN rs ELSE PlaceAll(PlaceToken(rs, Head(toks)), Tail(toks))

\* BBoxTableParser._group_rows
GroupRows(toks) == PlaceAll(<<>>, SortByY(toks))

\* mutant of Column: a token exactly on a boundary goes to the bucket on
\* its left
Column_BoundaryLeft(x, w) ==
    IF x * 100 <= DESC_LIMIT * w THEN "desc"
    ELSE IF x * 100 <= QTY_LIMIT * w THEN "qty"
    ELSE IF x * 100 <= UNIT_LIMIT * w THEN "unit"
    ELSE "total"

\* the column of a token with center_x = x on a page of width w > 0
Column(x, w) ==
    IF x * 100 < DESC_LIMIT * w THEN "desc"
    ELSE IF x * 100 < QTY_LIMIT * w THEN "qty"
    ELSE IF x * 100 < UNIT_LIMIT * w THEN "unit"
    ELSE "total"

\* sorted(row, key=center_x), stable
RECURSIVE SortByX(_)
SortByX(toks) ==
    IF toks = <<>> THEN <<>>
    ELSE LET rest == SortByX(SubSeq(toks, 1, Len(toks) - 1))
             last == toks[Len(toks)]
             k    == Cardinality({i \in DOMAIN rest : rest[i].center_x <= last.center_x})
         IN  SubSeq(rest, 1, k) \o <<last>> \o SubSeq(rest, k + 1, Len(rest))

\* mutant of Bucket: the fragments of a bucket are ordered left to right
Bucket_LeftToRight(row, w, name) ==
    LET kept == SelectSeq(SortByX(row), LAMBDA t : /\ StripChars(t.text) # <<>>
                                                   /\ Column(t.center_x, w) = name)
    IN  [i \in DOMAIN kept |-> StripChars(kept[i].text)]

\* cols[name] after the bucketing loop of _parse_row
Bucket(row, w, name) ==
    LET kept == SelectSeq(row, LAMBDA t : /\ StripChars(t.text) # <<>>
                                          /\ Column(t.center_x, w) = name)
    IN  [i \in DOMAIN kept |-> StripChars(kept[i].text)]

(***************************************************************************)
(* The float arithmetic of _parse_row.  A natural number of any size is a  *)
(* sequence of limbs, lowest first, without a zero at the high end; a      *)
(* float is [m, e], the number m * 2^e with m a natural number of at most   *)
(* MANT_BITS + 1 bits.  The prices of the model have at most nine digits,  *)
(* so no float is subnormal or infinite.                                   *)
(***************************************************************************)
LIMB_BITS == 15
LIMB == 32768        \* 2^LIMB_BITS
MANT_BITS == 53      \* bits of the significand of a Python float

RECURSIVE Pow2(_)
Pow2(k) == IF k = 0 THEN 1 ELSE 2 * Pow2(k - 1)

RECURSIVE BigFromNat(_)
BigFromNat(n) == IF n = 0 THEN <<>> ELSE <<n % LIMB>> \o BigFromNat(n \div LIMB)

RECURSIVE BigNorm(_)
BigNorm(a) ==
    IF a # <<>> /\ a[Len(a)] = 0 THEN BigNorm(SubSeq(a, 1, Len(a) - 1)) ELSE a

\* a * LIMB^w
RECURSIVE ShiftLimbs(_, _)
ShiftLimbs(a, w) == IF a = <<>> \/ w = 0 THEN a ELSE <<0>> \o ShiftLimbs(a, w - 1)

\* a * d for 0 <= d < LIMB
BigMulSmall(a, d) ==
    LET RECURSIVE MulCarry(_, _)
        MulCarry(x, carry) ==
            IF x = <<>> THEN BigFromNat(carry)
            ELSE LET y == x[1] * d + carry
                 IN  <<y % LIMB>> \o MulCarry(Tail(x), y \div LIMB)
    IN  BigNorm(MulCarry(a, 0))

BigAdd(a, b) ==
    LET RECURSIVE AddCarry(_, _, _)
        AddCarry(x, y, carry) ==
            IF x = <<>> /\ y = <<>> THEN BigFromNat(carry)
            ELSE LET z == (IF x = <<>> THEN 0 ELSE x[1]) + (IF y = <<>> THEN 0 ELSE y[1])
                              + carry
                 IN  <<z % LIMB>> \o AddCarry(IF x = <<>> THEN x ELSE Tail(x),
                                              IF y = <<>> THEN y ELSE Tail(y), z \div LIMB)
    IN  AddCarry(a, b, 0)

\* a - b for a >= b
BigSub(a, b) ==
    LET RECURSIVE SubBorrow(_, _, _)
        SubBorrow(x, y, borrow) ==
            IF x = <<>> THEN <<>>
            ELSE LET z == x[1] - (IF y = <<>> THEN 0 ELSE y[1]) - borrow
                 IN  <<(z + LIMB) % LIMB>>
                         \o SubBorrow(Tail(x), IF y = <<>> THEN y ELSE Tail(y),
                                      IF z < 0 THEN 1 ELSE 0)
    IN  BigNorm(SubBorrow(a, b, 0))

RECURSIVE BigMul(_, _)
BigMul(a, b) ==
    IF b = <<>> THEN <<>>
    ELSE BigAdd(BigMulSmall(a, b[1]), ShiftLimbs(BigMul(a, Tail(b)), 1))

\* quotient and remainder of a by d, 0 < d < LIMB; the limbs are taken
\* from the high end, rem being the remainder so far
BigDivSmall(a, d) ==
    LET RECURSIVE DivRem(_, _)
        DivRem(x, rem) ==
            IF x = <<>> THEN [q |-> <<>>, r |-> rem]
            ELSE LET y    == rem * LIMB + x[Len(x)]
                     rest == DivRem(SubSeq(x, 1, Len(x) - 1), y % d)
                 IN  [q |-> Append(rest.q, y \div d), r |-> rest.r]
        res == DivRem(a, 0)
    IN  [q |-> BigNorm(res.q), r |-> res.r]

RECURSIVE BitLenNat(_)
BitLenNat(n) == IF n = 0 THEN 0 ELSE 1 + BitLenNat(n \div 2)

BigBitLen(a) ==
    IF a = <<>> THEN 0 ELSE LIMB_BITS * (Len(a) - 1) + BitLenNat(a[Len(a)])

\* a * 2^k
BigShl(a, k) == ShiftLimbs(BigMulSmall(a, Pow2(k % LIMB_BITS)), k \div LIMB_BITS)

\* a \div 2^k, and whether a bit was lost
BigShr(a, k) ==
    LET w    == k \div LIMB_BITS
        low  == SubSeq(a, 1, IF w < Len(a) THEN w ELSE Len(a))
        high == SubSeq(a, w + 1, Len(a))
        x    == BigDivSmall(high, Pow2(k % LIMB_BITS))
    IN  [q |-> x.q, lost |-> x.r # 0 \/ \E i \in DOMAIN low : low[i] # 0]

\* the float nearest to m * 2^e, ties to the even significand; lost tells
\* that m is the integer part of a number that is not an integer
RoundToFloat(m, lost, e) ==
    IF BigBitLen(m) <= MANT_BITS THEN [m |-> m, e |-> e]
    ELSE LET IsOdd(a) == a # <<>> /\ a[1] % 2 = 1
             drop  == BigBitLen(m) - MANT_BITS
             x     == BigShr(m, drop - 1)
             kept  == BigShr(x.q, 1).q
             below == x.lost \/ lost
             up    == IsOdd(x.q) /\ (below \/ IsOdd(kept))
         IN  [m |-> IF up THEN BigAdd(kept, <<1>>) ELSE kept, e |-> e + drop]

\* a \div den for den a power of ten, and whether there was a remainder
RECURSIVE DivPow10(_, _)
DivPow10(a, den) ==
    IF den = 1 THEN [q |-> a, lost |-> FALSE]
    ELSE LET x    == BigDivSmall(a, 10)
             rest == DivPow10(x.q, den \div 10)
         IN  [q |-> rest.q, lost |-> rest.lost \/ x.r # 0]

\* float(literal) for the decimal literal of value f.num / f.den, f.den a
\* power of ten: the nearest float
FloatOf(f) ==
    LET n     == BigFromNat(f.num)
        need  == MANT_BITS + 3 + BitLenNat(f.den) - BigBitLen(n)
        shift == IF need > 0 THEN need ELSE 0
        x     == DivPow10(BigShl(n, shift), f.den)
    IN  IF f.num = 0 THEN [m |-> <<>>, e |-> 0]
        ELSE RoundToFloat(x.q, x.lost, 0 - shift)

\* a * b on floats
FloatMul(a, b) == RoundToFloat(BigMul(a.m, b.m), FALSE, a.e + b.e)

\* abs(a - b) on floats: the exact difference, a natural number times
\* 2^e, rounded
FloatAbsDiff(a, b) ==
    LET e == IF a.e < b.e THEN a.e ELSE b.e
        x == BigShl(a.m, a.e - e)
        y == BigShl(b.m, b.e - e)
        Less == \/ Len(x) < Len(y)
                \/ /\ Len(x) = Len(y)
                   /\ \E i \in DOMAIN x :
                          /\ x[i] < y[i]
                          /\ \A j \in (i + 1)..Len(x) : x[j] = y[j]
    IN  RoundToFloat(IF Less THEN BigSub(y, x) ELSE BigSub(x, y), FALSE, e)

\* x < 1 for x = m * 2^e
BelowOne(x) == BigBitLen(x.m) + x.e <= 0

\* mutant of Consistent: a difference of exactly 1 still counts as consistent
Consistent_Inclusive(qty, unit_price, total_price) ==
    AbsDiff(qty * unit_price.num * total_price.den, total_price.num * unit_price.den)
        <= unit_price.den * total_price.den

\* abs(qty * unit_price - total_price) < 1, in float arithmetic: qty is
\* converted to a float, the product and the difference are each rounded
\* to the nearest float
Consistent(qty, unit_price, total_price) ==
    BelowOne(FloatAbsDiff(FloatMul(RoundToFloat(BigFromNat(qty), FALSE, 0),
                                   FloatOf(unit_price)),
                          FloatOf(total_price)))

NoItem == [kind |-> "none"]

\* mutant of ParseColumns: the check of quantity, unit price and total
\* against 0 is left out
ParseColumns_NoPositivity(row, w) ==
    LET desc        == Bucket(row, w, "desc")
        description == ReplaceAll(ReplaceAll(Join(desc, <<" ">>),
                                             <<"Ö", "r", "ü", "n">>, <<"Ü", "r", "ü", "n">>),
                                  <<"0", "r", "ü", "n">>, <<"Ü", "r", "ü", "n">>)
        qty         == SafeNumber(Bucket(row, w, "qty"), Frac(DEFAULT_QTY, 1), "int").num
        unit_price  == SafeNumber(Bucket(row, w, "unit"), Zero, "float")
        total_price == SafeNumber(Bucket(row, w, "total"), Zero, "float")
    IN  IF desc = <<>> \/ Bucket(row, w, "unit") = <<>> \/ Bucket(row, w, "total") = <<>>
            THEN NoItem
        ELSE [kind        |-> "item",
              description |-> description,
              quantity    |-> qty,
              unit_price  |-> unit_price,
              total_price |-> total_price,
              confidence  |-> IF Consistent(qty, unit_price, total_price)
                                  THEN CONF_CONSISTENT ELSE CONF_INCONSISTENT]

\* BBoxTableParser._parse_row from the bucketing loop on (page_width > 0 or
\* no token with text in the row)
ParseColumns(row, w) ==
    LET desc        == Bucket(row, w, "desc")
        description == ReplaceAll(ReplaceAll(Join(desc, <<" ">>),
                                             <<"Ö", "r", "ü", "n">>, <<"Ü", "r", "ü", "n">>),
                                  <<"0", "r", "ü", "n">>, <<"Ü", "r", "ü", "n">>)
        qty         == SafeNumber(Bucket(row, w, "qty"), Frac(DEFAULT_QTY, 1), "int").num
        unit_price  == SafeNumber(Bucket(row, w, "unit"), Zero, "float")
        total_price == SafeNumber(Bucket(row, w, "total"), Zero, "float")
    IN  IF desc = <<>> \/ Bucket(row, w, "unit") = <<>> \/ Bucket(row, w, "total") = <<>>
            THEN NoItem
        ELSE IF qty <= 0 \/ unit_price.num <= 0 \/ total_price.num <= 0
            THEN NoItem
        ELSE [kind        |-> "item",
              description |-> description,
              quantity    |-> qty,
              unit_price  |-> unit_price,
              total_price |-> total_price,
              confidence  |-> IF Consistent(qty, unit_price, total_price)
                                  THEN CONF_CONSISTENT ELSE CONF_INCONSISTENT]

\* mutant of HasHeaderKeyword: the row text is not lower-cased
HasHeaderKeyword_CaseSensitive(row) ==
    LET text_joined == Join([i \in DOMAIN row |-> row[i].text], <<" ">>)
    IN  \E k \in HEADER_KEYWORDS : Contains(text_joined, k)

\* _parse_row: any(k in text_joined for k in self.HEADER_KEYWORDS)
HasHeaderKeyword(row) ==
    LET text_joined == Join([i \in DOMAIN row |-> LowerStr(row[i].text)], <<" ">>)
    IN  \E k \in HEADER_KEYWORDS : Contains(text_joined, k)

\* _parse_row: tok.center_x / page_width is evaluated for a token with text
\* while page_width is 0
DividesByZero(row, w) ==
    w = 0 /\ \E i \in DOMAIN row : StripChars(row[i].text) # <<>>

\* BBoxTableParser._parse_row: an item, None, or the ZeroDivisionError of
\* tok.center_x / page_width
ParseRow(row, w) ==
    IF HasHeaderKeyword(row) THEN NoItem
    ELSE IF DividesByZero(row, w) THEN [kind |-> "raise"]
    ELSE ParseColumns(row, w)

\* the cols dict of _parse_row when the call ends: still empty when the row
\* is a header row or the first division raises
RowCols(row, w) ==
    IF HasHeaderKeyword(row) \/ DividesByZero(row, w) THEN NoCols
    ELSE [desc  |-> Bucket(row, w, "desc"),
          qty   |-> Bucket(row, w, "qty"),
          unit  |-> Bucket(row, w, "unit"),
          total |-> Bucket(row, w, "total")]

(***************************************************************************)
(* Inputs of BBoxTableParser.parse                                         *)
(***************************************************************************)
MaxTokens == 6    \* tokens on a page
MaxParseCalls == 2  \* parse() calls on one parser object

\* an OCRToken whose box is 10 wide and 10 high around its center
Tok(text, x, y) ==
    [text       |-> text,
     confidence |-> 90,
     bbox       |-> <<x - 5, y - 5, x + 5, y + 5>>,
     center_x   |-> x,
     center_y   |-> y]

TokenPool ==
    << Tok(<<"W", "i", "d", "g", "e", "t">>, 10, 10),
       Tok(<<"3">>, 40, 10),
       Tok(<<"1", "0", ".", "0", "0">>, 60, 10),
       Tok(<<"3", "0", ".", "0", "0">>, 90, 10),
       Tok(<<"3", "1", ".", "0", "0">>, 90, 15),
       Tok(<<"3", "U+0660", ".", "5", "0">>, 70, 12),
       Tok(<<"K", "D", "V">>, 10, 15),
       Tok(<<"2", ",", "5">>, 35, 10),
       Tok(<<"P", "r", "o">>, 30, 5),
       Tok(<<"a", "b", "c">>, 60, 22),
       Tok(<<"0">>, 50, 10),
       Tok(<<" ", "\r">>, 10, 10),
       Tok(<<"Ö", "r", "ü", "n">>, 10, 22),
       Tok(<<"0", ",", "1", "3">>, 60, 22),
       Tok(<<"1", ".", "1", "3">>, 90, 22) >>

PageWidths == {0, 100, 120}

RECURSIVE PickFrom(_, _)
PickFrom(I, k) ==
    IF k > Len(TokenPool) THEN <<>>
    ELSE (IF k \in I THEN <<TokenPool[k]>> ELSE <<>>) \o PickFrom(I, k + 1)

Reverse(q) == [i \in DOMAIN q |-> q[Len(q) + 1 - i]]

\* the token lists handed to parse: up to MaxTokens tokens of the pool, in
\* the order of the pool or in the opposite order
TokenLists ==
    LET picks == { PickFrom(I, 1) :
                     I \in {J \in SUBSET DOMAIN TokenPool : Cardinality(J) <= MaxTokens} }
    IN  picks \cup { Reverse(q) : q \in picks }

(***************************************************************************)
(* BBoxTableParser.parse as a state machine                                *)
(***************************************************************************)
\* the analyzer is not running
AnalyzerIdle ==
    /\ pdf = [exists |-> FALSE, pages |-> <<>>]
    /\ pc = "idle"
    /\ page_analyses = <<>>
    /\ total_words = 0
    /\ total_images = 0
    /\ pdf_type = "none"
    /\ confidence = Zero
    /\ page_type_counts = [text |-> 0, image |-> 0, broken |-> 0]
    /\ analysis = NoAnalysis
    /\ exc = "none"

TInit ==
    /\ AnalyzerIdle
    /\ tokens \in TokenLists
    /\ page_width \in PageWidths
    /\ tpc = "group"
    /\ rows = <<>>
    /\ row_index = 0
    /\ items = <<>>
    /\ cols = NoCols
    /\ texc = "none"
    /\ tcalls = 0
    /\ NormalizerIdle

\* parse(): rows = self._group_rows(tokens)
GroupRowsStep ==
    /\ tpc = "group"
    /\ rows' = GroupRows(tokens)
    /\ tpc' = "rows"
    /\ UNCHANGED <<tokens, page_width, row_index, items, cols, texc, tcalls>>
    /\ UNCHANGED avars
    /\ UNCHANGED nvars

\* parse(): one iteration of the loop over the rows
ParseRowStep ==
    /\ tpc = "rows"
    /\ row_index < Len(rows)
    /\ LET item == ParseRow(rows[row_index + 1], page_width)
       IN  IF item.kind = "raise"
               THEN /\ tpc' = "raised"
                    /\ texc' = "ZeroDivisionError"
                    /\ UNCHANGED <<row_index, items>>
               ELSE /\ row_index' = row_index + 1
                    /\ items' = IF item.kind = "item" THEN Append(items, item) ELSE items
                    /\ UNCHANGED <<tpc, texc>>
    /\ cols' = RowCols(rows[row_index + 1], page_width)
    /\ UNCHANGED <<tokens, page_width, rows, tcalls>>
    /\ UNCHANGED avars
    /\ UNCHANGED nvars

\* parse(): return items
ReturnItems ==
    /\ tpc = "rows"
    /\ row_index = Len(rows)
    /\ tpc' = "returned"
    /\ tcalls' = tcalls + 1
    /\ UNCHANGED <<tokens, page_width, rows, row_index, items, cols, texc>>
    /\ UNCHANGED avars
    /\ UNCHANGED nvars

\* mutant of NewItems: the list of the previous call is used again
NewItems_Kept == items

\* parse(): items = []
NewItems == <<>>

\* the pages a caller hands to the same parser after a first call: the
\* "Widget" row on a page 100 wide, a lone "KDV" token on a page 120 wide,
\* and a page without tokens
FollowUpPages ==
    { [tokens |-> SubSeq(TokenPool, 1, 4), page_width |-> 100],
      [tokens |-> <<TokenPool[7]>>, page_width |-> 120],
      [tokens |-> <<>>, page_width |-> 100] }

\* the caller calls parse() of the same parser object for another page: the
\* locals of the new call are fresh, the object has no attributes
ParseAgain ==
    /\ tpc = "returned"
    /\ tcalls < MaxParseCalls
    /\ \E p \in FollowUpPages :
           /\ tokens' = p.tokens
           /\ page_width' = p.page_width
    /\ tpc' = "group"
    /\ rows' = <<>>
    /\ row_index' = 0
    /\ items' = NewItems
    /\ cols' = NoCols
    /\ UNCHANGED <<texc, tcalls>>
    /\ UNCHANGED avars
    /\ UNCHANGED nvars

TNext ==
    \/ GroupRowsStep
    \/ ParseRowStep
    \/ ReturnItems
    \/ ParseAgain

SpecTable == TInit /\ [][TNext]_vars

(***************************************************************************)
(* Properties of the table parser                                          *)
(***************************************************************************)
\* quantity * unit_price - total_price of an item, times the product of the
\* two denominators
ScaledGap(it) ==
    it.quantity * it.unit_price.num * it.total_price.den
        - it.total_price.num * it.unit_price.den
ScaledOne(it) == it.unit_price.den * it.total_price.den

\* abs(quantity * unit_price - total_price) of an item as Python evaluates
\* it: quantity is an int, the two prices are floats, and the product and
\* the difference are each rounded to the nearest float
FloatGap(it) ==
    FloatAbsDiff(FloatMul(FloatOf(Frac(it.quantity, 1)), FloatOf(it.unit_price)),
                 FloatOf(it.total_price))

\* abs(quantity * unit_price - total_price) < 1
GapBelowOne(it) == BelowOne(FloatGap(it))

\* C10: every item parse collects has confidence 0.95 exactly when
\* |quantity * unit_price - total_price| < 1, evaluated on the item's float
\* prices as Python evaluates it, and 0.85 otherwise; no item has any other
\* confidence.
C10_ConfidenceTwoValued ==
    \A i \in DOMAIN items :
        /\ items[i].confidence \in {85, 95}
        /\ (items[i].confidence = 95) <=> GapBelowOne(items[i])
        /\ (items[i].confidence = 85) <=> ~GapBelowOne(items[i])

\* C10 witness: parse returned an item whose decimal texts miss the total by
\* exactly 1 and whose float difference is below 1.0: 1 * 0.13 against 1.13
\* (0.13 and 1.13 are no floats; the nearest floats differ by the largest
\* float below 1.0), with confidence 0.95
C10_Witness ==
    /\ tpc = "returned"
    /\ \E i \in DOMAIN items :
           /\ ScaledGap(items[i]) = -ScaledOne(items[i])
           /\ items[i].quantity = 1
           /\ items[i].unit_price.num * 100 = 13 * items[i].unit_price.den
           /\ items[i].confidence = 95

\* the rows the loop of parse has handled so far
HandledRows == SubSeq(rows, 1, row_index)

\* the description, unit-price and total buckets of a row all hold a token
RequiredBucketsFilled(row) ==
    /\ Bucket(row, page_width, "desc") # <<>>
    /\ Bucket(row, page_width, "unit") # <<>>
    /\ Bucket(row, page_width, "total") # <<>>

\* the numbers read from the buckets of a row are all positive (an empty
\* quantity bucket reads as DEFAULT_QTY)
NumbersPositive(row) ==
    /\ SafeNumber(Bucket(row, page_width, "qty"), Frac(DEFAULT_QTY, 1), "int").num > 0
    /\ SafeNumber(Bucket(row, page_width, "unit"), Zero, "float").num > 0
    /\ SafeNumber(Bucket(row, page_width, "total"), Zero, "float").num > 0

\* a row that is no header row and passes both validations of _parse_row
RowIsValid(row) ==
    /\ ~HasHeaderKeyword(row)
    /\ RequiredBucketsFilled(row)
    /\ NumbersPositive(row)

\* C11: every item collected by parse has a non-empty description and
\* positive quantity, unit_price and total_price, and the items are, in
\* order, one per handled row whose description, unit-price and total
\* buckets are non-empty and whose numbers are positive (an empty quantity
\* bucket does not disqualify a row); every other handled row contributes
\* nothing, and on a page of positive width no row makes parse raise.
C11_ItemsFromValidRows ==
    LET valid == SelectSeq(HandledRows, RowIsValid)
    IN  /\ Len(items) = Len(valid)
        /\ \A i \in DOMAIN items :
               /\ items[i].description # <<>>
               /\ items[i].quantity > 0
               /\ items[i].unit_price.num > 0 /\ items[i].unit_price.den > 0
               /\ items[i].total_price.num > 0 /\ items[i].total_price.den > 0
               /\ i <= Len(valid) => RequiredBucketsFilled(valid[i])
        /\ page_width > 0 => (texc = "none" /\ tpc # "raised")

\* C11 witness: parse returned an item of quantity DEFAULT_QTY read from a
\* row with an empty quantity bucket, after dropping a row whose three
\* required buckets were filled but whose unit price read as 0
C11_Witness ==
    /\ tpc = "returned"
    /\ texc = "none"
    /\ \E r \in DOMAIN rows :
           /\ RowIsValid(rows[r])
           /\ Bucket(rows[r], page_width, "qty") = <<>>
           /\ \E i \in DOMAIN items : items[i].quantity = DEFAULT_QTY
    /\ \E r \in DOMAIN rows :
           /\ ~HasHeaderKeyword(rows[r])
           /\ RequiredBucketsFilled(rows[r])
           /\ ~NumbersPositive(rows[r])
    /\ Len(items) < Len(rows)

\* the lower-cased text of a row, its tokens joined by single spaces,
\* contains a header keyword
MentionsHeaderKeyword(row) ==
    \E k \in HEADER_KEYWORDS :
        Contains(LowerStr(Join([i \in DOMAIN row |-> row[i].text], <<" ">>)), k)

\* C12: when the loop of parse handles a row whose lower-cased, space-joined
\* text contains a header keyword, the row adds no item, whatever its
\* buckets would parse to, and the row is left before any token is put
\* into a column bucket (so not even a page width of 0 makes it raise).
C12_HeaderRowYieldsNoItem ==
    [][ (/\ tpc = "rows"
         /\ row_index < Len(rows)
         /\ MentionsHeaderKeyword(rows[row_index + 1]))
        => (/\ items' = items
            /\ cols' = NoCols
            /\ row_index' = row_index + 1
            /\ tpc' = "rows"
            /\ texc' = "none") ]_vars

\* C12 witness: parse returned no item for a single row that holds the
\* token "KDV" in upper case and whose buckets parse to a valid line item
C12_Witness ==
    /\ tpc = "returned"
    /\ Len(rows) = 1
    /\ \E i \in DOMAIN rows[1] : rows[1][i].text = <<"K", "D", "V">>
    /\ page_width > 0
    /\ ParseColumns(rows[1], page_width).kind = "item"
    /\ items = <<>>

\* the four tokens of the "Widget" row: x 10, 40, 60 and 90 on one band
WidgetRow ==
    { Tok(<<"W", "i", "d", "g", "e", "t">>, 10, 10),
      Tok(<<"3">>, 40, 10),
      Tok(<<"1", "0", ".", "0", "0">>, 60, 10),
      Tok(<<"3", "0", ".", "0", "0">>, 90, 10) }

\* parse was handed exactly the four tokens of the "Widget" row, in some
\* order, and a page width of 100
WidgetInput ==
    /\ page_width = 100
    /\ Len(tokens) = 4
    /\ {tokens[i] : i \in DOMAIN tokens} = WidgetRow

\* C13: with page_width = 100 the tokens "Widget", "3", "10.00" and "30.00"
\* at x_ratio 0.1, 0.4, 0.6 and 0.9 on one band parse to exactly one item:
\* description "Widget", quantity 3, unit_price 10.00, total_price 30.00,
\* confidence 0.95.
C13_WidgetExample ==
    (WidgetInput /\ tpc = "returned")
        => /\ Len(items) = 1
           /\ items[1].description = <<"W", "i", "d", "g", "e", "t">>
           /\ items[1].quantity = 3
           /\ items[1].unit_price.num = 10 * items[1].unit_price.den
           /\ items[1].total_price.num = 30 * items[1].total_price.den
           /\ items[1].confidence = 95

\* C13 witness: parse returned for the "Widget" row handed in from right to
\* left, having grouped the four tokens into one row
C13_Witness ==
    /\ WidgetInput
    /\ tokens[1].center_x = 90
    /\ tpc = "returned"
    /\ Len(rows) = 1
    /\ Len(items) = 1

\* C15: parse returns a (possibly empty) item list without raising for
\* every token sequence and every non-negative page width, and returns the
\* empty list when handed no token.
C15_ParseNeverRaises ==
    /\ texc = "none"
    /\ tpc # "raised"
    /\ (tpc = "returned" /\ tokens = <<>>) => items = <<>>

\* the tokens of the rows, row after row
RECURSIVE Flatten(_)
Flatten(rs) == IF rs = <<>> THEN <<>> ELSE Head(rs) \o Flatten(Tail(rs))

\* the vertical centers of a and b are within 12 pixel-units (the code
\* compares with <, so a distance of exactly 12 is not within)
WithinBand(a, b) ==
    /\ a.center_y - b.center_y < 12
    /\ b.center_y - a.center_y < 12

\* the number of tokens equal to t in a token list
Occurrences(q, t) == Cardinality({i \in DOMAIN q : q[i] = t})

\* C19: once _group_rows has run, the rows hold exactly the tokens handed
\* in; rows are opened and filled in ascending center_y order; every token
\* sits in the first row (in order of creation) whose first token is within
\* 12 pixel-units of it, whatever the later members of any row are, and a
\* token opens a row only when no row created before is that near.
C19_FirstFitByFirstToken ==
    tpc \in {"rows", "returned", "raised"} =>
        /\ \A r \in DOMAIN rows : rows[r] # <<>>
        /\ Len(Flatten(rows)) = Len(tokens)
        /\ \A i \in DOMAIN tokens :
               Occurrences(Flatten(rows), tokens[i]) = Occurrences(tokens, tokens[i])
        /\ \A r \in DOMAIN rows : \A k \in DOMAIN rows[r] :
               /\ WithinBand(rows[r][1], rows[r][k])
               /\ \A q \in 1 .. (r - 1) : ~WithinBand(rows[q][1], rows[r][k])
               /\ k > 1 => rows[r][k - 1].center_y <= rows[r][k].center_y
        /\ \A r \in DOMAIN rows :
               r > 1 => rows[r - 1][1].center_y <= rows[r][1].center_y

\* C19 witness: a token opened a new row although a later member of an
\* earlier row is within 12 pixel-units of it (only the first token of the
\* row, 17 away, was compared)
C19_Witness ==
    /\ tpc = "returned"
    /\ Len(rows) = 2
    /\ \E k \in DOMAIN rows[1] :
           /\ k > 1
           /\ WithinBand(rows[1][k], rows[2][1])
           /\ ~WithinBand(rows[1][1], rows[2][1])

\* the row _parse_row handled last
LastRow == rows[row_index]

\* the stripped texts of the tokens of a row that have text and whose
\* x_ratio = center_x / page_width, in hundredths of the page width
\* (100 * center_x against bound * page_width), satisfies InRange
TextsWhere(row, InRange(_)) ==
    LET kept == SelectSeq(row, LAMBDA t : StripChars(t.text) # <<>> /\ InRange(t.center_x))
    IN  [i \in DOMAIN kept |-> StripChars(kept[i].text)]

\* C20: after _parse_row has bucketed a row (no header row, page width
\* positive), every token with non-blank text is in exactly one bucket:
\* description holds those with x_ratio < 0.35, quantity those with
\* 0.35 <= x_ratio < 0.50, unit price those with 0.50 <= x_ratio < 0.70 and
\* total those with x_ratio >= 0.70, so a token exactly on 0.35, 0.50 or
\* 0.70 is in the bucket to its right.
C20_BucketByRatio ==
    (/\ tpc \in {"rows", "returned"}
     /\ row_index >= 1
     /\ page_width > 0
     /\ ~MentionsHeaderKeyword(LastRow))
        => /\ cols.desc  = TextsWhere(LastRow, LAMBDA x : 100 * x < 35 * page_width)
           /\ cols.qty   = TextsWhere(LastRow, LAMBDA x : /\ 35 * page_width <= 100 * x
                                                         /\ 100 * x < 50 * page_width)
           /\ cols.unit  = TextsWhere(LastRow, LAMBDA x : /\ 50 * page_width <= 100 * x
                                                         /\ 100 * x < 70 * page_width)
           /\ cols.total = TextsWhere(LastRow, LAMBDA x : 70 * page_width <= 100 * x)
           /\ Len(cols.desc) + Len(cols.qty) + Len(cols.unit) + Len(cols.total)
                  = Cardinality({i \in DOMAIN LastRow : StripChars(LastRow[i].text) # <<>>})

\* C20 witness: a row with a token exactly on each boundary was bucketed:
\* "2,5" at x_ratio 0.35 is in quantity, "0" at 0.50 in unit price and
\* "3" U+0660 ".50" (30.50 with an Arabic-Indic zero) at 0.70 in total
C20_Witness ==
    /\ tpc = "returned"
    /\ page_width = 100
    /\ row_index = 1
    /\ \E i \in DOMAIN LastRow : LastRow[i].center_x = 35
    /\ \E i \in DOMAIN LastRow : LastRow[i].center_x = 50
    /\ \E i \in DOMAIN LastRow : LastRow[i].center_x = 70
    /\ cols.qty = << <<"2", ",", "5">> >>
    /\ cols.unit = << <<"0">> >>
    /\ cols.total = << <<"3", "U+0660", ".", "5", "0">> >>

(***************************************************************************)
(* Properties of the page analysis                                         *)
(***************************************************************************)
\* the number of words of length >= 2 in the raw word list of a page
LongWordCount(page) ==
    SeqSum([i \in DOMAIN page.words |->
                IF StrLen(page.words[i].w) >= 2 THEN page.words[i].n ELSE 0])

\* a text block, trimmed, has at least 80 characters of which the letters
\* are at least 0.40 of max(1, non-space characters)
LongAndLettered(t) ==
    /\ StrLen(Strip(t)) >= 80
    /\ CountIn(Strip(t), {"L"}) * 100 >= 40 * Max(NonSpaceCount(Strip(t)), 1)

\* the verdict of the garbled check on text block t of a page
GarbledOn(page, t) ==
    IsTextGarbled(t, page.words, ValidWords(page.words), StrLen(Strip(t)),
                  LongWordCount(page),
                  Frac(CountIn(Strip(t), {"L"}), Max(NonSpaceCount(Strip(t)), 1)))

\* C17 (as claimed): has_text of every analysed page is true exactly when
\* the page has at least 5 words of length >= 2 or its trimmed text block
\* has at least 80 characters and a letter ratio of at least 0.40, whatever
\* its image count, and the garbled verdict is the one of the page's real
\* text.
C17_HasTextFromPageText ==
    \A i \in DOMAIN page_analyses :
        LET page == pdf.pages[i]
        IN  /\ page_analyses[i].has_text
                   <=> (LongWordCount(page) >= 5 \/ LongAndLettered(page.text))
            /\ page_analyses[i].is_garbled = GarbledOn(page, page.text).is_garbled

\* the page has no word of length >= 2 and at least one image: the analyzer
\* does not extract its text block
TextSkipped(page) == LongWordCount(page) = 0 /\ Len(page.images) > 0

\* C17 (amended): has_text of every analysed page is true exactly when the
\* page has at least 5 words of length >= 2 or the text the analyzer
\* extracted has, trimmed, at least 80 characters and a letter ratio of at
\* least 0.40; the extracted text is the page's text block unless the page
\* has no word of length >= 2 and at least one image, when it is empty (so
\* has_text is false and the page is not garbled); the garbled verdict is
\* the one of the extracted text whether or not has_text holds.
C17_HasTextFromExtractedText ==
    \A i \in DOMAIN page_analyses :
        LET page == pdf.pages[i]
            t    == IF TextSkipped(page) THEN <<>> ELSE page.text
        IN  /\ page_analyses[i].has_text
                   <=> (LongWordCount(page) >= 5 \/ LongAndLettered(t))
            /\ page_analyses[i].is_garbled = GarbledOn(page, t).is_garbled
            /\ page_analyses[i].garbled_reasons = GarbledOn(page, t).reasons
            /\ TextSkipped(page) => (/\ ~page_analyses[i].has_text
                                     /\ ~page_analyses[i].is_garbled
                                     /\ page_analyses[i].char_count = 0)

\* C17 witness: a page with one image, no word of length >= 2 and a text
\* block of 80 characters, nearly all letters, was analysed: has_text is
\* false and the page is not garbled
C17_Witness ==
    \E i \in DOMAIN page_analyses :
        /\ TextSkipped(pdf.pages[i])
        /\ LongAndLettered(pdf.pages[i].text)
        /\ ~page_analyses[i].has_text
        /\ ~page_analyses[i].is_garbled
        /\ page_analyses[i].page_type = "image"

\* the eight checks of the garbled test on a page, in the order claimed,
\* for the extracted text t (trimmed, non-empty): whether each matches and
\* the tag it reports
GarbledChecks(page, t) ==
    LET n       == Max(NonSpaceCount(t), 1)
        repl    == CountIn(t, {"R"})
        ctl     == CountIn(t, {"C", "V"})
        fmt     == CountIn(t, {"F"})
        letters == CountIn(t, {"L"})
        singles == SingleChars(page.words)
        tokens_ == Max(ListLen(page.words), 1)
        wc      == LongWordCount(page)
    IN  << [hit |-> repl * 100 >= 5 * n,        tag |-> "replacement_hard"],
           [hit |-> ctl * 100 > 2 * n,          tag |-> "control_chars_high"],
           [hit |-> singles * 100 > 70 * tokens_,
                                                tag |-> "single_char_tokens_high"],
           [hit |-> letters * 100 < 20 * n,     tag |-> "letter_ratio_very_low"],
           [hit |-> letters * 100 < 30 * n /\ wc < 5,
                                                tag |-> "letter_ratio_low_and_few_words"],
           [hit |-> StrLen(t) > 100 /\ wc < 5,  tag |-> "char_word_mismatch"],
           [hit |-> repl * 100 >= n /\ wc < 10, tag |-> "replacement_soft_plus_low_words"],
           [hit |-> fmt * 100 > 5 * n /\ wc < 10,
                                                tag |-> "format_chars_plus_low_words"] >>

\* the soft flags raised on the trimmed text t
SoftFlags(t) ==
    LET n == Max(NonSpaceCount(t), 1)
    IN  (IF CountIn(t, {"R"}) * 100 >= n THEN <<"replacement_soft">> ELSE <<>>)
        \o (IF CountIn(t, {"F"}) * 100 > 5 * n THEN <<"format_chars_suspicious">> ELSE <<>>)

\* C18: for every analysed page whose extracted text is not empty, the page
\* is garbled exactly when one of the eight checks matches, the reason is
\* then the tag of the first check in the fixed order that matches, and a
\* page that is not garbled carries exactly the soft flags raised.
C18_FirstMatchingCheck ==
    \A i \in DOMAIN page_analyses :
        LET page   == pdf.pages[i]
            t      == Strip(ExtractedText(page))
            checks == GarbledChecks(page, t)
            hits   == {k \in DOMAIN checks : checks[k].hit}
        IN  t # <<>> =>
                IF hits = {}
                    THEN /\ ~page_analyses[i].is_garbled
                         /\ page_analyses[i].garbled_reasons = SoftFlags(t)
                    ELSE /\ page_analyses[i].is_garbled
                         /\ \E k \in hits :
                                /\ \A j \in hits : k <= j
                                /\ page_analyses[i].garbled_reasons = <<checks[k].tag>>

\* C18 witness: a page on which both the single-character check and the
\* later letter-ratio check match was analysed and reports the tag of the
\* earlier one
C18_Witness ==
    \E i \in DOMAIN page_analyses :
        LET page   == pdf.pages[i]
            checks == GarbledChecks(page, Strip(ExtractedText(page)))
        IN  /\ Strip(ExtractedText(page)) # <<>>
            /\ ~checks[1].hit /\ ~checks[2].hit
            /\ checks[3].hit /\ checks[4].hit
            /\ page_analyses[i].is_garbled
            /\ page_analyses[i].garbled_reasons = <<"single_char_tokens_high">>

(***************************************************************************)
(* OCRNormalizer: texts are sequences of one-character strings             *)
(***************************************************************************)
SIMILARITY_THRESHOLD == 85   \* ratio() > 0.85, in hundredths
SHORT_LINE == 2              \* len(line) <= 2

\* unicodedata.normalize("NFC", text), Unicode 14.0.0: the characters with
\* a canonical decomposition, each with its full decomposition (the Hangul
\* syllables are apart, see HangulSyllables)
CanonicalDecompositions ==
    <<
      <<"À", <<"A", "U+0300">>>>, <<"Á", <<"A", "U+0301">>>>,
      <<"Â", <<"A", "U+0302">>>>, <<"Ã", <<"A", "U+0303">>>>,
      <<"Ä", <<"A", "combining-diaeresis">>>>, <<"Å", <<"A", "U+030A">>>>,
      <<"Ç", <<"C", "U+0327">>>>, <<"È", <<"E", "U+0300">>>>,
      <<"É", <<"E", "U+0301">>>>, <<"Ê", <<"E", "U+0302">>>>,
      <<"Ë", <<"E", "combining-diaeresis">>>>, <<"Ì", <<"I", "U+0300">>>>,
      <<"Í", <<"I", "U+0301">>>>, <<"Î", <<"I", "U+0302">>>>,
      <<"Ï", <<"I", "combining-diaeresis">>>>, <<"Ñ", <<"N", "U+0303">>>>,
      <<"Ò", <<"O", "U+0300">>>>, <<"Ó", <<"O", "U+0301">>>>,
      <<"Ô", <<"O", "U+0302">>>>, <<"Õ", <<"O", "U+0303">>>>,
      <<"Ö", <<"O", "combining-diaeresis">>>>, <<"Ù", <<"U", "U+0300">>>>,
      <<"Ú", <<"U", "U+0301">>>>, <<"Û", <<"U", "U+0302">>>>,
      <<"Ü", <<"U", "combining-diaeresis">>>>, <<"Ý", <<"Y", "U+0301">>>>,
      <<"à", <<"a", "U+0300">>>>, <<"á", <<"a", "U+0301">>>>,
      <<"â", <<"a", "U+0302">>>>, <<"ã", <<"a", "U+0303">>>>,
      <<"ä", <<"a", "combining-diaeresis">>>>, <<"å", <<"a", "U+030A">>>>,
      <<"ç", <<"c", "U+0327">>>>, <<"è", <<"e", "U+0300">>>>,
      <<"é", <<"e", "U+0301">>>>, <<"ê", <<"e", "U+0302">>>>,
      <<"ë", <<"e", "combining-diaeresis">>>>, <<"ì", <<"i", "U+0300">>>>,
      <<"í", <<"i", "U+0301">>>>, <<"î", <<"i", "U+0302">>>>,
      <<"ï", <<"i", "combining-diaeresis">>>>, <<"ñ", <<"n", "U+0303">>>>,
      <<"ò", <<"o", "U+0300">>>>, <<"ó", <<"o", "U+0301">>>>,
      <<"ô", <<"o", "U+0302">>>>, <<"õ", <<"o", "U+0303">>>>,
      <<"ö", <<"o", "combining-diaeresis">>>>, <<"ù", <<"u", "U+0300">>>>,
      <<"ú", <<"u", "U+0301">>>>, <<"û", <<"u", "U+0302">>>>,
      <<"ü", <<"u", "combining-diaeresis">>>>, <<"ý", <<"y", "U+0301">>>>,
      <<"ÿ", <<"y", "combining-diaeresis">>>>,
      <<"U+0100", <<"A", "U+0304">>>>, <<"U+0101", <<"a", "U+0304">>>>,
      <<"U+0102", <<"A", "U+0306">>>>, <<"U+0103", <<"a", "U+0306">>>>,
      <<"U+0104", <<"A", "U+0328">>>>, <<"U+0105", <<"a", "U+0328">>>>,
      <<"U+0106", <<"C", "U+0301">>>>, <<"U+0107", <<"c", "U+0301">>>>,
      <<"U+0108", <<"C", "U+0302">>>>, <<"U+0109", <<"c", "U+0302">>>>,
      <<"U+010A", <<"C", "U+0307">>>>, <<"U+010B", <<"c", "U+0307">>>>,
      <<"U+010C", <<"C", "U+030C">>>>, <<"U+010D", <<"c", "U+030C">>>>,
      <<"U+010E", <<"D", "U+030C">>>>, <<"U+010F", <<"d", "U+030C">>>>,
      <<"U+0112", <<"E", "U+0304">>>>, <<"U+0113", <<"e", "U+0304">>>>,
      <<"U+0114", <<"E", "U+0306">>>>, <<"U+0115", <<"e", "U+0306">>>>,
      <<"U+0116", <<"E", "U+0307">>>>, <<"U+0117", <<"e", "U+0307">>>>,
      <<"U+0118", <<"E", "U+0328">>>>, <<"U+0119", <<"e", "U+0328">>>>,
      <<"U+011A", <<"E", "U+030C">>>>, <<"U+011B", <<"e", "U+030C">>>>,
      <<"U+011C", <<"G", "U+0302">>>>, <<"U+011D", <<"g", "U+0302">>>>,
      <<"U+011E", <<"G", "U+0306">>>>, <<"U+011F", <<"g", "U+0306">>>>,
      <<"U+0120", <<"G", "U+0307">>>>, <<"U+0121", <<"g", "U+0307">>>>,
      <<"U+0122", <<"G", "U+0327">>>>, <<"U+0123", <<"g", "U+0327">>>>,
      <<"U+0124", <<"H", "U+0302">>>>, <<"U+0125", <<"h", "U+0302">>>>,
      <<"U+0128", <<"I", "U+0303">>>>, <<"U+0129", <<"i", "U+0303">>>>,
      <<"U+012A", <<"I", "U+0304">>>>, <<"U+012B", <<"i", "U+0304">>>>,
      <<"U+012C", <<"I", "U+0306">>>>, <<"U+012D", <<"i", "U+0306">>>>,
      <<"U+012E", <<"I", "U+0328">>>>, <<"U+012F", <<"i", "U+0328">>>>,
      <<"U+0130", <<"I", "U+0307">>>>, <<"U+0134", <<"J", "U+0302">>>>,
      <<"U+0135", <<"j", "U+0302">>>>, <<"U+0136", <<"K", "U+0327">>>>,
      <<"U+0137", <<"k", "U+0327">>>>, <<"U+0139", <<"L", "U+0301">>>>,
      <<"U+013A", <<"l", "U+0301">>>>, <<"U+013B", <<"L", "U+0327">>>>,
      <<"U+013C", <<"l", "U+0327">>>>, <<"U+013D", <<"L", "U+030C">>>>,
      <<"U+013E", <<"l", "U+030C">>>>, <<"U+0143", <<"N", "U+0301">>>>,
      <<"U+0144", <<"n", "U+0301">>>>, <<"U+0145", <<"N", "U+0327">>>>,
      <<"U+0146", <<"n", "U+0327">>>>, <<"U+0147", <<"N", "U+030C">>>>,
      <<"U+0148", <<"n", "U+030C">>>>, <<"U+014C", <<"O", "U+0304">>>>,
      <<"U+014D", <<"o", "U+0304">>>>, <<"U+014E", <<"O", "U+0306">>>>,
      <<"U+014F", <<"o", "U+0306">>>>, <<"U+0150", <<"O", "U+030B">>>>,
      <<"U+0151", <<"o", "U+030B">>>>, <<"U+0154", <<"R", "U+0301">>>>,
      <<"U+0155", <<"r", "U+0301">>>>, <<"U+0156", <<"R", "U+0327">>>>,
      <<"U+0157", <<"r", "U+0327">>>>, <<"U+0158", <<"R", "U+030C">>>>,
      <<"U+0159", <<"r", "U+030C">>>>, <<"U+015A", <<"S", "U+0301">>>>,
      <<"U+015B", <<"s", "U+0301">>>>, <<"U+015C", <<"S", "U+0302">>>>,
      <<"U+015D", <<"s", "U+0302">>>>, <<"U+015E", <<"S", "U+0327">>>>,
      <<"U+015F", <<"s", "U+0327">>>>, <<"U+0160", <<"S", "U+030C">>>>,
      <<"U+0161", <<"s", "U+030C">>>>, <<"U+0162", <<"T", "U+0327">>>>,
      <<"U+0163", <<"t", "U+0327">>>>, <<"U+0164", <<"T", "U+030C">>>>,
      <<"U+0165", <<"t", "U+030C">>>>, <<"U+0168", <<"U", "U+0303">>>>,
      <<"U+0169", <<"u", "U+0303">>>>, <<"U+016A", <<"U", "U+0304">>>>,
      <<"U+016B", <<"u", "U+0304">>>>, <<"U+016C", <<"U", "U+0306">>>>,
      <<"U+016D", <<"u", "U+0306">>>>, <<"U+016E", <<"U", "U+030A">>>>,
      <<"U+016F", <<"u", "U+030A">>>>, <<"U+0170", <<"U", "U+030B">>>>,
      <<"U+0171", <<"u", "U+030B">>>>, <<"U+0172", <<"U", "U+0328">>>>,
      <<"U+0173", <<"u", "U+0328">>>>, <<"U+0174", <<"W", "U+0302">>>>,
      <<"U+0175", <<"w", "U+0302">>>>, <<"U+0176", <<"Y", "U+0302">>>>,
      <<"U+0177", <<"y", "U+0302">>>>,
      <<"U+0178", <<"Y", "combining-diaeresis">>>>,
      <<"U+0179", <<"Z", "U+0301">>>>, <<"U+017A", <<"z", "U+0301">>>>,
      <<"U+017B", <<"Z", "U+0307">>>>, <<"U+017C", <<"z", "U+0307">>>>,
      <<"U+017D", <<"Z", "U+030C">>>>, <<"U+017E", <<"z", "U+030C">>>>,
      <<"U+01A0", <<"O", "U+031B">>>>, <<"U+01A1", <<"o", "U+031B">>>>,
      <<"U+01AF", <<"U", "U+031B">>>>, <<"U+01B0", <<"u", "U+031B">>>>,
      <<"U+01CD", <<"A", "U+030C">>>>, <<"U+01CE", <<"a", "U+030C">>>>,
      <<"U+01CF", <<"I", "U+030C">>>>, <<"U+01D0", <<"i", "U+030C">>>>,
      <<"U+01D1", <<"O", "U+030C">>>>, <<"U+01D2", <<"o", "U+030C">>>>,
      <<"U+01D3", <<"U", "U+030C">>>>, <<"U+01D4", <<"u", "U+030C">>>>,
      <<"U+01D5", <<"U", "combining-diaeresis", "U+0304">>>>,
      <<"U+01D6", <<"u", "combining-diaeresis", "U+0304">>>>,
      <<"U+01D7", <<"U", "combining-diaeresis", "U+0301">>>>,
      <<"U+01D8", <<"u", "combining-diaeresis", "U+0301">>>>,
      <<"U+01D9", <<"U", "combining-diaeresis", "U+030C">>>>,
      <<"U+01DA", <<"u", "combining-diaeresis", "U+030C">>>>,
      <<"U+01DB", <<"U", "combining-diaeresis", "U+0300">>>>,
      <<"U+01DC", <<"u", "combining-diaeresis", "U+0300">>>>,
      <<"U+01DE", <<"A", "combining-diaeresis", "U+0304">>>>,
      <<"U+01DF", <<"a", "combining-diaeresis", "U+0304">>>>,
      <<"U+01E0", <<"A", "U+0307", "U+0304">>>>,
      <<"U+01E1", <<"a", "U+0307", "U+0304">>>>,
      <<"U+01E2", <<"Æ", "U+0304">>>>, <<"U+01E3", <<"æ", "U+0304">>>>,
      <<"U+01E6", <<"G", "U+030C">>>>, <<"U+01E7", <<"g", "U+030C">>>>,
      <<"U+01E8", <<"K", "U+030C">>>>, <<"U+01E9", <<"k", "U+030C">>>>,
      <<"U+01EA", <<"O", "U+0328">>>>, <<"U+01EB", <<"o", "U+0328">>>>,
      <<"U+01EC", <<"O", "U+0328", "U+0304">>>>,
      <<"U+01ED", <<"o", "U+0328", "U+0304">>>>,
      <<"U+01EE", <<"U+01B7", "U+030C">>>>,
      <<"U+01EF", <<"U+0292", "U+030C">>>>, <<"U+01F0", <<"j", "U+030C">>>>,
      <<"U+01F4", <<"G", "U+0301">>>>, <<"U+01F5", <<"g", "U+0301">>>>,
      <<"U+01F8", <<"N", "U+0300">>>>, <<"U+01F9", <<"n", "U+0300">>>>,
      <<"U+01FA", <<"A", "U+030A", "U+0301">>>>,
      <<"U+01FB", <<"a", "U+030A", "U+0301">>>>,
      <<"U+01FC", <<"Æ", "U+0301">>>>, <<"U+01FD", <<"æ", "U+0301">>>>,
      <<"U+01FE", <<"Ø", "U+0301">>>>, <<"U+01FF", <<"ø", "U+0301">>>>,
      <<"U+0200", <<"A", "U+030F">>>>, <<"U+0201", <<"a", "U+030F">>>>,
      <<"U+0202", <<"A", "U+0311">>>>, <<"U+0203", <<"a", "U+0311">>>>,
      <<"U+0204", <<"E", "U+030F">>>>, <<"U+0205", <<"e", "U+030F">>>>,
      <<"U+0206", <<"E", "U+0311">>>>, <<"U+0207", <<"e", "U+0311">>>>,
      <<"U+0208", <<"I", "U+030F">>>>, <<"U+0209", <<"i", "U+030F">>>>,
      <<"U+020A", <<"I", "U+0311">>>>, <<"U+020B", <<"i", "U+0311">>>>,
      <<"U+020C", <<"O", "U+030F">>>>, <<"U+020D", <<"o", "U+030F">>>>,
      <<"U+020E", <<"O", "U+0311">>>>, <<"U+020F", <<"o", "U+0311">>>>,
      <<"U+0210", <<"R", "U+030F">>>>, <<"U+0211", <<"r", "U+030F">>>>,
      <<"U+0212", <<"R", "U+0311">>>>, <<"U+0213", <<"r", "U+0311">>>>,
      <<"U+0214", <<"U", "U+030F">>>>, <<"U+0215", <<"u", "U+030F">>>>,
      <<"U+0216", <<"U", "U+0311">>>>, <<"U+0217", <<"u", "U+0311">>>>,
      <<"U+0218", <<"S", "U+0326">>>>, <<"U+0219", <<"s", "U+0326">>>>,
      <<"U+021A", <<"T", "U+0326">>>>, <<"U+021B", <<"t", "U+0326">>>>,
      <<"U+021E", <<"H", "U+030C">>>>, <<"U+021F", <<"h", "U+030C">>>>,
      <<"U+0226", <<"A", "U+0307">>>>, <<"U+0227", <<"a", "U+0307">>>>,
      <<"U+0228", <<"E", "U+0327">>>>, <<"U+0229", <<"e", "U+0327">>>>,
      <<"U+022A", <<"O", "combining-diaeresis", "U+0304">>>>,
      <<"U+022B", <<"o", "combining-diaeresis", "U+0304">>>>,
      <<"U+022C", <<"O", "U+0303", "U+0304">>>>,
      <<"U+022D", <<"o", "U+0303", "U+0304">>>>,
      <<"U+022E", <<"O", "U+0307">>>>, <<"U+022F", <<"o", "U+0307">>>>,
      <<"U+0230", <<"O", "U+0307", "U+0304">>>>,
      <<"U+0231", <<"o", "U+0307", "U+0304">>>>,
      <<"U+0232", <<"Y", "U+0304">>>>, <<"U+0233", <<"y", "U+0304">>>>,
      <<"U+0340", <<"U+0300">>>>, <<"U+0341", <<"U+0301">>>>,
      <<"U+0343", <<"U+0313">>>>,
      <<"U+0344", <<"combining-diaeresis", "U+0301">>>>,
      <<"U+0374", <<"U+02B9">>>>, <<"U+037E", <<";">>>>,
      <<"U+0385", <<"¨", "U+0301">>>>, <<"U+0386", <<"U+0391", "U+0301">>>>,
      <<"U+0387", <<"·">>>>, <<"U+0388", <<"U+0395", "U+0301">>>>,
      <<"U+0389", <<"U+0397", "U+0301">>>>,
      <<"U+038A", <<"U+0399", "U+0301">>>>,
      <<"U+038C", <<"U+039F", "U+0301">>>>,
      <<"U+038E", <<"U+03A5", "U+0301">>>>,
      <<"U+038F", <<"U+03A9", "U+0301">>>>,
      <<"U+0390", <<"U+03B9", "combining-diaeresis", "U+0301">>>>,
      <<"U+03AA", <<"U+0399", "combining-diaeresis">>>>,
      <<"U+03AB", <<"U+03A5", "combining-diaeresis">>>>,
      <<"U+03AC", <<"U+03B1", "U+0301">>>>,
      <<"U+03AD", <<"U+03B5", "U+0301">>>>,
      <<"U+03AE", <<"U+03B7", "U+0301">>>>,
      <<"U+03AF", <<"U+03B9", "U+0301">>>>,
      <<"U+03B0", <<"U+03C5", "combining-diaeresis", "U+0301">>>>,
      <<"U+03CA", <<"U+03B9", "combining-diaeresis">>>>,
      <<"U+03CB", <<"U+03C5", "combining-diaeresis">>>>,
      <<"U+03CC", <<"U+03BF", "U+0301">>>>,
      <<"U+03CD", <<"U+03C5", "U+0301">>>>,
      <<"U+03CE", <<"U+03C9", "U+0301">>>>,
      <<"U+03D3", <<"U+03D2", "U+0301">>>>,
      <<"U+03D4", <<"U+03D2", "combining-diaeresis">>>>,
      <<"U+0400", <<"U+0415", "U+0300">>>>,
      <<"U+0401", <<"U+0415", "combining-diaeresis">>>>,
      <<"U+0403", <<"U+0413", "U+0301">>>>,
      <<"U+0407", <<"U+0406", "combining-diaeresis">>>>,
      <<"U+040C", <<"U+041A", "U+0301">>>>,
      <<"U+040D", <<"U+0418", "U+0300">>>>,
      <<"U+040E", <<"U+0423", "U+0306">>>>,
      <<"U+0419", <<"U+0418", "U+0306">>>>,
      <<"U+0439", <<"U+0438", "U+0306">>>>,
      <<"U+0450", <<"U+0435", "U+0300">>>>,
      <<"U+0451", <<"U+0435", "combining-diaeresis">>>>,
      <<"U+0453", <<"U+0433", "U+0301">>>>,
      <<"U+0457", <<"U+0456", "combining-diaeresis">>>>,
      <<"U+045C", <<"U+043A", "U+0301">>>>,
      <<"U+045D", <<"U+0438", "U+0300">>>>,
      <<"U+045E", <<"U+0443", "U+0306">>>>,
      <<"U+0476", <<"U+0474", "U+030F">>>>,
      <<"U+0477", <<"U+0475", "U+030F">>>>,
      <<"U+04C1", <<"U+0416", "U+0306">>>>,
      <<"U+04C2", <<"U+0436", "U+0306">>>>,
      <<"U+04D0", <<"U+0410", "U+0306">>>>,
      <<"U+04D1", <<"U+0430", "U+0306">>>>,
      <<"U+04D2", <<"U+0410", "combining-diaeresis">>>>,
      <<"U+04D3", <<"U+0430", "combining-diaeresis">>>>,
      <<"U+04D6", <<"U+0415", "U+0306">>>>,
      <<"U+04D7", <<"U+0435", "U+0306">>>>,
      <<"U+04DA", <<"U+04D8", "combining-diaeresis">>>>,
      <<"U+04DB", <<"U+04D9", "combining-diaeresis">>>>,
      <<"U+04DC", <<"U+0416", "combining-diaeresis">>>>,
      <<"U+04DD", <<"U+0436", "combining-diaeresis">>>>,
      <<"U+04DE", <<"U+0417", "combining-diaeresis">>>>,
      <<"U+04DF", <<"U+0437", "combining-diaeresis">>>>,
      <<"U+04E2", <<"U+0418", "U+0304">>>>,
      <<"U+04E3", <<"U+0438", "U+0304">>>>,
      <<"U+04E4", <<"U+0418", "combining-diaeresis">>>>,
      <<"U+04E5", <<"U+0438", "combining-diaeresis">>>>,
      <<"U+04E6", <<"U+041E", "combining-diaeresis">>>>,
      <<"U+04E7", <<"U+043E", "combining-diaeresis">>>>,
      <<"U+04EA", <<"U+04E8", "combining-diaeresis">>>>,
      <<"U+04EB", <<"U+04E9", "combining-diaeresis">>>>,
      <<"U+04EC", <<"U+042D", "combining-diaeresis">>>>,
      <<"U+04ED", <<"U+044D", "combining-diaeresis">>>>,
      <<"U+04EE", <<"U+0423", "U+0304">>>>,
      <<"U+04EF", <<"U+0443", "U+0304">>>>,
      <<"U+04F0", <<"U+0423", "combining-diaeresis">>>>,
      <<"U+04F1", <<"U+0443", "combining-diaeresis">>>>,
      <<"U+04F2", <<"U+0423", "U+030B">>>>,
      <<"U+04F3", <<"U+0443", "U+030B">>>>,
      <<"U+04F4", <<"U+0427", "combining-diaeresis">>>>,
      <<"U+04F5", <<"U+0447", "combining-diaeresis">>>>,
      <<"U+04F8", <<"U+042B", "combining-diaeresis">>>>,
      <<"U+04F9", <<"U+044B", "combining-diaeresis">>>>,
      <<"U+0622", <<"U+0627", "U+0653">>>>,
      <<"U+0623", <<"U+0627", "U+0654">>>>,
      <<"U+0624", <<"U+0648", "U+0654">>>>,
      <<"U+0625", <<"U+0627", "U+0655">>>>,
      <<"U+0626", <<"U+064A", "U+0654">>>>,
      <<"U+06C0", <<"U+06D5", "U+0654">>>>,
      <<"U+06C2", <<"U+06C1", "U+0654">>>>,
      <<"U+06D3", <<"U+06D2", "U+0654">>>>,
      <<"U+0929", <<"U+0928", "U+093C">>>>,
      <<"U+0931", <<"U+0930", "U+093C">>>>,
      <<"U+0934", <<"U+0933", "U+093C">>>>,
      <<"U+0958", <<"U+0915", "U+093C">>>>,
      <<"U+0959", <<"U+0916", "U+093C">>>>,
      <<"U+095A", <<"U+0917", "U+093C">>>>,
      <<"U+095B", <<"U+091C", "U+093C">>>>,
      <<"U+095C", <<"U+0921", "U+093C">>>>,
      <<"U+095D", <<"U+0922", "U+093C">>>>,
      <<"U+095E", <<"U+092B", "U+093C">>>>,
      <<"U+095F", <<"U+092F", "U+093C">>>>,
      <<"U+09CB", <<"U+09C7", "U+09BE">>>>,
      <<"U+09CC", <<"U+09C7", "U+09D7">>>>,
      <<"U+09DC", <<"U+09A1", "U+09BC">>>>,
      <<"U+09DD", <<"U+09A2", "U+09BC">>>>,
      <<"U+09DF", <<"U+09AF", "U+09BC">>>>,
      <<"U+0A33", <<"U+0A32", "U+0A3C">>>>,
      <<"U+0A36", <<"U+0A38", "U+0A3C">>>>,
      <<"U+0A59", <<"U+0A16", "U+0A3C">>>>,
      <<"U+0A5A", <<"U+0A17", "U+0A3C">>>>,
      <<"U+0A5B", <<"U+0A1C", "U+0A3C">>>>,
      <<"U+0A5E", <<"U+0A2B", "U+0A3C">>>>,
      <<"U+0B48", <<"U+0B47", "U+0B56">>>>,
      <<"U+0B4B", <<"U+0B47", "U+0B3E">>>>,
      <<"U+0B4C", <<"U+0B47", "U+0B57">>>>,
      <<"U+0B5C", <<"U+0B21", "U+0B3C">>>>,
      <<"U+0B5D", <<"U+0B22", "U+0B3C">>>>,
      <<"U+0B94", <<"U+0B92", "U+0BD7">>>>,
      <<"U+0BCA", <<"U+0BC6", "U+0BBE">>>>,
      <<"U+0BCB", <<"U+0BC7", "U+0BBE">>>>,
      <<"U+0BCC", <<"U+0BC6", "U+0BD7">>>>,
      <<"U+0C48", <<"U+0C46", "U+0C56">>>>,
      <<"U+0CC0", <<"U+0CBF", "U+0CD5">>>>,
      <<"U+0CC7", <<"U+0CC6", "U+0CD5">>>>,
      <<"U+0CC8", <<"U+0CC6", "U+0CD6">>>>,
      <<"U+0CCA", <<"U+0CC6", "U+0CC2">>>>,
      <<"U+0CCB", <<"U+0CC6", "U+0CC2", "U+0CD5">>>>,
      <<"U+0D4A", <<"U+0D46", "U+0D3E">>>>,
      <<"U+0D4B", <<"U+0D47", "U+0D3E">>>>,
      <<"U+0D4C", <<"U+0D46", "U+0D57">>>>,
      <<"U+0DDA", <<"U+0DD9", "U+0DCA">>>>,
      <<"U+0DDC", <<"U+0DD9", "U+0DCF">>>>,
      <<"U+0DDD", <<"U+0DD9", "U+0DCF", "U+0DCA">>>>,
      <<"U+0DDE", <<"U+0DD9", "U+0DDF">>>>,
      <<"U+0F43", <<"U+0F42", "U+0FB7">>>>,
      <<"U+0F4D", <<"U+0F4C", "U+0FB7">>>>,
      <<"U+0F52", <<"U+0F51", "U+0FB7">>>>,
      <<"U+0F57", <<"U+0F56", "U+0FB7">>>>,
      <<"U+0F5C", <<"U+0F5B", "U+0FB7">>>>,
      <<"U+0F69", <<"U+0F40", "U+0FB5">>>>,
      <<"U+0F73", <<"U+0F71", "U+0F72">>>>,
      <<"U+0F75", <<"U+0F71", "U+0F74">>>>,
      <<"U+0F76", <<"U+0FB2", "U+0F80">>>>,
      <<"U+0F78", <<"U+0FB3", "U+0F80">>>>,
      <<"U+0F81", <<"U+0F71", "U+0F80">>>>,
      <<"U+0F93", <<"U+0F92", "U+0FB7">>>>,
      <<"U+0F9D", <<"U+0F9C", "U+0FB7">>>>,
      <<"U+0FA2", <<"U+0FA1", "U+0FB7">>>>,
      <<"U+0FA7", <<"U+0FA6", "U+0FB7">>>>,
      <<"U+0FAC", <<"U+0FAB", "U+0FB7">>>>,
      <<"U+0FB9", <<"U+0F90", "U+0FB5">>>>,
      <<"U+1026", <<"U+1025", "U+102E">>>>,
      <<"U+1B06", <<"U+1B05", "U+1B35">>>>,
      <<"U+1B08", <<"U+1B07", "U+1B35">>>>,
      <<"U+1B0A", <<"U+1B09", "U+1B35">>>>,
      <<"U+1B0C", <<"U+1B0B", "U+1B35">>>>,
      <<"U+1B0E", <<"U+1B0D", "U+1B35">>>>,
      <<"U+1B12", <<"U+1B11", "U+1B35">>>>,
      <<"U+1B3B", <<"U+1B3A", "U+1B35">>>>,
      <<"U+1B3D", <<"U+1B3C", "U+1B35">>>>,
      <<"U+1B40", <<"U+1B3E", "U+1B35">>>>,
      <<"U+1B41", <<"U+1B3F", "U+1B35">>>>,
      <<"U+1B43", <<"U+1B42", "U+1B35">>>>, <<"U+1E00", <<"A", "U+0325">>>>,
      <<"U+1E01", <<"a", "U+0325">>>>, <<"U+1E02", <<"B", "U+0307">>>>,
      <<"U+1E03", <<"b", "U+0307">>>>, <<"U+1E04", <<"B", "U+0323">>>>,
      <<"U+1E05", <<"b", "U+0323">>>>, <<"U+1E06", <<"B", "U+0331">>>>,
      <<"U+1E07", <<"b", "U+0331">>>>,
      <<"U+1E08", <<"C", "U+0327", "U+0301">>>>,
      <<"U+1E09", <<"c", "U+0327", "U+0301">>>>,
      <<"U+1E0A", <<"D", "U+0307">>>>, <<"U+1E0B", <<"d", "U+0307">>>>,
      <<"U+1E0C", <<"D", "U+0323">>>>, <<"U+1E0D", <<"d", "U+0323">>>>,
      <<"U+1E0E", <<"D", "U+0331">>>>, <<"U+1E0F", <<"d", "U+0331">>>>,
      <<"U+1E10", <<"D", "U+0327">>>>, <<"U+1E11", <<"d", "U+0327">>>>,
      <<"U+1E12", <<"D", "U+032D">>>>, <<"U+1E13", <<"d", "U+032D">>>>,
      <<"U+1E14", <<"E", "U+0304", "U+0300">>>>,
      <<"U+1E15", <<"e", "U+0304", "U+0300">>>>,
      <<"U+1E16", <<"E", "U+0304", "U+0301">>>>,
      <<"U+1E17", <<"e", "U+0304", "U+0301">>>>,
      <<"U+1E18", <<"E", "U+032D">>>>, <<"U+1E19", <<"e", "U+032D">>>>,
      <<"U+1E1A", <<"E", "U+0330">>>>, <<"U+1E1B", <<"e", "U+0330">>>>,
      <<"U+1E1C", <<"E", "U+0327", "U+0306">>>>,
      <<"U+1E1D", <<"e", "U+0327", "U+0306">>>>,
      <<"U+1E1E", <<"F", "U+0307">>>>, <<"U+1E1F", <<"f", "U+0307">>>>,
      <<"U+1E20", <<"G", "U+0304">>>>, <<"U+1E21", <<"g", "U+0304">>>>,
      <<"U+1E22", <<"H", "U+0307">>>>, <<"U+1E23", <<"h", "U+0307">>>>,
      <<"U+1E24", <<"H", "U+0323">>>>, <<"U+1E25", <<"h", "U+0323">>>>,
      <<"U+1E26", <<"H", "combining-diaeresis">>>>,
      <<"U+1E27", <<"h", "combining-diaeresis">>>>,
      <<"U+1E28", <<"H", "U+0327">>>>, <<"U+1E29", <<"h", "U+0327">>>>,
      <<"U+1E2A", <<"H", "U+032E">>>>, <<"U+1E2B", <<"h", "U+032E">>>>,
      <<"U+1E2C", <<"I", "U+0330">>>>, <<"U+1E2D", <<"i", "U+0330">>>>,
      <<"U+1E2E", <<"I", "combining-diaeresis", "U+0301">>>>,
      <<"U+1E2F", <<"i", "combining-diaeresis", "U+0301">>>>,
      <<"U+1E30", <<"K", "U+0301">>>>, <<"U+1E31", <<"k", "U+0301">>>>,
      <<"U+1E32", <<"K", "U+0323">>>>, <<"U+1E33", <<"k", "U+0323">>>>,
      <<"U+1E34", <<"K", "U+0331">>>>, <<"U+1E35", <<"k", "U+0331">>>>,
      <<"U+1E36", <<"L", "U+0323">>>>, <<"U+1E37", <<"l", "U+0323">>>>,
      <<"U+1E38", <<"L", "U+0323", "U+0304">>>>,
      <<"U+1E39", <<"l", "U+0323", "U+0304">>>>,
      <<"U+1E3A", <<"L", "U+0331">>>>, <<"U+1E3B", <<"l", "U+0331">>>>,
      <<"U+1E3C", <<"L", "U+032D">>>>, <<"U+1E3D", <<"l", "U+032D">>>>,
      <<"U+1E3E", <<"M", "U+0301">>>>, <<"U+1E3F", <<"m", "U+0301">>>>,
      <<"U+1E40", <<"M", "U+0307">>>>, <<"U+1E41", <<"m", "U+0307">>>>,
      <<"U+1E42", <<"M", "U+0323">>>>, <<"U+1E43", <<"m", "U+0323">>>>,
      <<"U+1E44", <<"N", "U+0307">>>>, <<"U+1E45", <<"n", "U+0307">>>>,
      <<"U+1E46", <<"N", "U+0323">>>>, <<"U+1E47", <<"n", "U+0323">>>>,
      <<"U+1E48", <<"N", "U+0331">>>>, <<"U+1E49", <<"n", "U+0331">>>>,
      <<"U+1E4A", <<"N", "U+032D">>>>, <<"U+1E4B", <<"n", "U+032D">>>>,
      <<"U+1E4C", <<"O", "U+0303", "U+0301">>>>,
      <<"U+1E4D", <<"o", "U+0303", "U+0301">>>>,
      <<"U+1E4E", <<"O", "U+0303", "combining-diaeresis">>>>,
      <<"U+1E4F", <<"o", "U+0303", "combining-diaeresis">>>>,
      <<"U+1E50", <<"O", "U+0304", "U+0300">>>>,
      <<"U+1E51", <<"o", "U+0304", "U+0300">>>>,
      <<"U+1E52", <<"O", "U+0304", "U+0301">>>>,
      <<"U+1E53", <<"o", "U+0304", "U+0301">>>>,
      <<"U+1E54", <<"P", "U+0301">>>>, <<"U+1E55", <<"p", "U+0301">>>>,
      <<"U+1E56", <<"P", "U+0307">>>>, <<"U+1E57", <<"p", "U+0307">>>>,
      <<"U+1E58", <<"R", "U+0307">>>>, <<"U+1E59", <<"r", "U+0307">>>>,
      <<"U+1E5A", <<"R", "U+0323">>>>, <<"U+1E5B", <<"r", "U+0323">>>>,
      <<"U+1E5C", <<"R", "U+0323", "U+0304">>>>,
      <<"U+1E5D", <<"r", "U+0323", "U+0304">>>>,
      <<"U+1E5E", <<"R", "U+0331">>>>, <<"U+1E5F", <<"r", "U+0331">>>>,
      <<"U+1E60", <<"S", "U+0307">>>>, <<"U+1E61", <<"s", "U+0307">>>>,
      <<"U+1E62", <<"S", "U+0323">>>>, <<"U+1E63", <<"s", "U+0323">>>>,
      <<"U+1E64", <<"S", "U+0301", "U+0307">>>>,
      <<"U+1E65", <<"s", "U+0301", "U+0307">>>>,
      <<"U+1E66", <<"S", "U+030C", "U+0307">>>>,
      <<"U+1E67", <<"s", "U+030C", "U+0307">>>>,
      <<"U+1E68", <<"S", "U+0323", "U+0307">>>>,
      <<"U+1E69", <<"s", "U+0323", "U+0307">>>>,
      <<"U+1E6A", <<"T", "U+0307">>>>, <<"U+1E6B", <<"t", "U+0307">>>>,
      <<"U+1E6C", <<"T", "U+0323">>>>, <<"U+1E6D", <<"t", "U+0323">>>>,
      <<"U+1E6E", <<"T", "U+0331">>>>, <<"U+1E6F", <<"t", "U+0331">>>>,
      <<"U+1E70", <<"T", "U+032D">>>>, <<"U+1E71", <<"t", "U+032D">>>>,
      <<"U+1E72", <<"U", "U+0324">>>>, <<"U+1E73", <<"u", "U+0324">>>>,
      <<"U+1E74", <<"U", "U+0330">>>>, <<"U+1E75", <<"u", "U+0330">>>>,
      <<"U+1E76", <<"U", "U+032D">>>>, <<"U+1E77", <<"u", "U+032D">>>>,
      <<"U+1E78", <<"U", "U+0303", "U+0301">>>>,
      <<"U+1E79", <<"u", "U+0303", "U+0301">>>>,
      <<"U+1E7A", <<"U", "U+0304", "combining-diaeresis">>>>,
      <<"U+1E7B", <<"u", "U+0304", "combining-diaeresis">>>>,
      <<"U+1E7C", <<"V", "U+0303">>>>, <<"U+1E7D", <<"v", "U+0303">>>>,
      <<"U+1E7E", <<"V", "U+0323">>>>, <<"U+1E7F", <<"v", "U+0323">>>>,
      <<"U+1E80", <<"W", "U+0300">>>>, <<"U+1E81", <<"w", "U+0300">>>>,
      <<"U+1E82", <<"W", "U+0301">>>>, <<"U+1E83", <<"w", "U+0301">>>>,
      <<"U+1E84", <<"W", "combining-diaeresis">>>>,
      <<"U+1E85", <<"w", "combining-diaeresis">>>>,
      <<"U+1E86", <<"W", "U+0307">>>>, <<"U+1E87", <<"w", "U+0307">>>>,
      <<"U+1E88", <<"W", "U+0323">>>>, <<"U+1E89", <<"w", "U+0323">>>>,
      <<"U+1E8A", <<"X", "U+0307">>>>, <<"U+1E8B", <<"x", "U+0307">>>>,
      <<"U+1E8C", <<"X", "combining-diaeresis">>>>,
      <<"U+1E8D", <<"x", "combining-diaeresis">>>>,
      <<"U+1E8E", <<"Y", "U+0307">>>>, <<"U+1E8F", <<"y", "U+0307">>>>,
      <<"U+1E90", <<"Z", "U+0302">>>>, <<"U+1E91", <<"z", "U+0302">>>>,
      <<"U+1E92", <<"Z", "U+0323">>>>, <<"U+1E93", <<"z", "U+0323">>>>,
      <<"U+1E94", <<"Z", "U+0331">>>>, <<"U+1E95", <<"z", "U+0331">>>>,
      <<"U+1E96", <<"h", "U+0331">>>>,
      <<"U+1E97", <<"t", "combining-diaeresis">>>>,
      <<"U+1E98", <<"w", "U+030A">>>>, <<"U+1E99", <<"y", "U+030A">>>>,
      <<"U+1E9B", <<"U+017F", "U+0307">>>>, <<"U+1EA0", <<"A", "U+0323">>>>,
      <<"U+1EA1", <<"a", "U+0323">>>>, <<"U+1EA2", <<"A", "U+0309">>>>,
      <<"U+1EA3", <<"a", "U+0309">>>>,
      <<"U+1EA4", <<"A", "U+0302", "U+0301">>>>,
      <<"U+1EA5", <<"a", "U+0302", "U+0301">>>>,
      <<"U+1EA6", <<"A", "U+0302", "U+0300">>>>,
      <<"U+1EA7", <<"a", "U+0302", "U+0300">>>>,
      <<"U+1EA8", <<"A", "U+0302", "U+0309">>>>,
      <<"U+1EA9", <<"a", "U+0302", "U+0309">>>>,
      <<"U+1EAA", <<"A", "U+0302", "U+0303">>>>,
      <<"U+1EAB", <<"a", "U+0302", "U+0303">>>>,
      <<"U+1EAC", <<"A", "U+0323", "U+0302">>>>,
      <<"U+1EAD", <<"a", "U+0323", "U+0302">>>>,
      <<"U+1EAE", <<"A", "U+0306", "U+0301">>>>,
      <<"U+1EAF", <<"a", "U+0306", "U+0301">>>>,
      <<"U+1EB0", <<"A", "U+0306", "U+0300">>>>,
      <<"U+1EB1", <<"a", "U+0306", "U+0300">>>>,
      <<"U+1EB2", <<"A", "U+0306", "U+0309">>>>,
      <<"U+1EB3", <<"a", "U+0306", "U+0309">>>>,
      <<"U+1EB4", <<"A", "U+0306", "U+0303">>>>,
      <<"U+1EB5", <<"a", "U+0306", "U+0303">>>>,
      <<"U+1EB6", <<"A", "U+0323", "U+0306">>>>,
      <<"U+1EB7", <<"a", "U+0323", "U+0306">>>>,
      <<"U+1EB8", <<"E", "U+0323">>>>, <<"U+1EB9", <<"e", "U+0323">>>>,
      <<"U+1EBA", <<"E", "U+0309">>>>, <<"U+1EBB", <<"e", "U+0309">>>>,
      <<"U+1EBC", <<"E", "U+0303">>>>, <<"U+1EBD", <<"e", "U+0303">>>>,
      <<"U+1EBE", <<"E", "U+0302", "U+0301">>>>,
      <<"U+1EBF", <<"e", "U+0302", "U+0301">>>>,
      <<"U+1EC0", <<"E", "U+0302", "U+0300">>>>,
      <<"U+1EC1", <<"e", "U+0302", "U+0300">>>>,
      <<"U+1EC2", <<"E", "U+0302", "U+0309">>>>,
      <<"U+1EC3", <<"e", "U+0302", "U+0309">>>>,
      <<"U+1EC4", <<"E", "U+0302", "U+0303">>>>,
      <<"U+1EC5", <<"e", "U+0302", "U+0303">>>>,
      <<"U+1EC6", <<"E", "U+0323", "U+0302">>>>,
      <<"U+1EC7", <<"e", "U+0323", "U+0302">>>>,
      <<"U+1EC8", <<"I", "U+0309">>>>, <<"U+1EC9", <<"i", "U+0309">>>>,
      <<"U+1ECA", <<"I", "U+0323">>>>, <<"U+1ECB", <<"i", "U+0323">>>>,
      <<"U+1ECC", <<"O", "U+0323">>>>, <<"U+1ECD", <<"o", "U+0323">>>>,
      <<"U+1ECE", <<"O", "U+0309">>>>, <<"U+1ECF", <<"o", "U+0309">>>>,
      <<"U+1ED0", <<"O", "U+0302", "U+0301">>>>,
      <<"U+1ED1", <<"o", "U+0302", "U+0301">>>>,
      <<"U+1ED2", <<"O", "U+0302", "U+0300">>>>,
      <<"U+1ED3", <<"o", "U+0302", "U+0300">>>>,
      <<"U+1ED4", <<"O", "U+0302", "U+0309">>>>,
      <<"U+1ED5", <<"o", "U+0302", "U+0309">>>>,
      <<"U+1ED6", <<"O", "U+0302", "U+0303">>>>,
      <<"U+1ED7", <<"o", "U+0302", "U+0303">>>>,
      <<"U+1ED8", <<"O", "U+0323", "U+0302">>>>,
      <<"U+1ED9", <<"o", "U+0323", "U+0302">>>>,
      <<"U+1EDA", <<"O", "U+031B", "U+0301">>>>,
      <<"U+1EDB", <<"o", "U+031B", "U+0301">>>>,
      <<"U+1EDC", <<"O", "U+031B", "U+0300">>>>,
      <<"U+1EDD", <<"o", "U+031B", "U+0300">>>>,
      <<"U+1EDE", <<"O", "U+031B", "U+0309">>>>,
      <<"U+1EDF", <<"o", "U+031B", "U+0309">>>>,
      <<"U+1EE0", <<"O", "U+031B", "U+0303">>>>,
      <<"U+1EE1", <<"o", "U+031B", "U+0303">>>>,
      <<"U+1EE2", <<"O", "U+031B", "U+0323">>>>,
      <<"U+1EE3", <<"o", "U+031B", "U+0323">>>>,
      <<"U+1EE4", <<"U", "U+0323">>>>, <<"U+1EE5", <<"u", "U+0323">>>>,
      <<"U+1EE6", <<"U", "U+0309">>>>, <<"U+1EE7", <<"u", "U+0309">>>>,
      <<"U+1EE8", <<"U", "U+031B", "U+0301">>>>,
      <<"U+1EE9", <<"u", "U+031B", "U+0301">>>>,
      <<"U+1EEA", <<"U", "U+031B", "U+0300">>>>,
      <<"U+1EEB", <<"u", "U+031B", "U+0300">>>>,
      <<"U+1EEC", <<"U", "U+031B", "U+0309">>>>,
      <<"U+1EED", <<"u", "U+031B", "U+0309">>>>,
      <<"U+1EEE", <<"U", "U+031B", "U+0303">>>>,
      <<"U+1EEF", <<"u", "U+031B", "U+0303">>>>,
      <<"U+1EF0", <<"U", "U+031B", "U+0323">>>>,
      <<"U+1EF1", <<"u", "U+031B", "U+0323">>>>,
      <<"U+1EF2", <<"Y", "U+0300">>>>, <<"U+1EF3", <<"y", "U+0300">>>>,
      <<"U+1EF4", <<"Y", "U+0323">>>>, <<"U+1EF5", <<"y", "U+0323">>>>,
      <<"U+1EF6", <<"Y", "U+0309">>>>, <<"U+1EF7", <<"y", "U+0309">>>>,
      <<"U+1EF8", <<"Y", "U+0303">>>>, <<"U+1EF9", <<"y", "U+0303">>>>,
      <<"U+1F00", <<"U+03B1", "U+0313">>>>,
      <<"U+1F01", <<"U+03B1", "U+0314">>>>,
      <<"U+1F02", <<"U+03B1", "U+0313", "U+0300">>>>,
      <<"U+1F03", <<"U+03B1", "U+0314", "U+0300">>>>,
      <<"U+1F04", <<"U+03B1", "U+0313", "U+0301">>>>,
      <<"U+1F05", <<"U+03B1", "U+0314", "U+0301">>>>,
      <<"U+1F06", <<"U+03B1", "U+0313", "U+0342">>>>,
      <<"U+1F07", <<"U+03B1", "U+0314", "U+0342">>>>,
      <<"U+1F08", <<"U+0391", "U+0313">>>>,
      <<"U+1F09", <<"U+0391", "U+0314">>>>,
      <<"U+1F0A", <<"U+0391", "U+0313", "U+0300">>>>,
      <<"U+1F0B", <<"U+0391", "U+0314", "U+0300">>>>,
      <<"U+1F0C", <<"U+0391", "U+0313", "U+0301">>>>,
      <<"U+1F0D", <<"U+0391", "U+0314", "U+0301">>>>,
      <<"U+1F0E", <<"U+0391", "U+0313", "U+0342">>>>,
      <<"U+1F0F", <<"U+0391", "U+0314", "U+0342">>>>,
      <<"U+1F10", <<"U+03B5", "U+0313">>>>,
      <<"U+1F11", <<"U+03B5", "U+0314">>>>,
      <<"U+1F12", <<"U+03B5", "U+0313", "U+0300">>>>,
      <<"U+1F13", <<"U+03B5", "U+0314", "U+0300">>>>,
      <<"U+1F14", <<"U+03B5", "U+0313", "U+0301">>>>,
      <<"U+1F15", <<"U+03B5", "U+0314", "U+0301">>>>,
      <<"U+1F18", <<"U+0395", "U+0313">>>>,
      <<"U+1F19", <<"U+0395", "U+0314">>>>,
      <<"U+1F1A", <<"U+0395", "U+0313", "U+0300">>>>,
      <<"U+1F1B", <<"U+0395", "U+0314", "U+0300">>>>,
      <<"U+1F1C", <<"U+0395", "U+0313", "U+0301">>>>,
      <<"U+1F1D", <<"U+0395", "U+0314", "U+0301">>>>,
      <<"U+1F20", <<"U+03B7", "U+0313">>>>,
      <<"U+1F21", <<"U+03B7", "U+0314">>>>,
      <<"U+1F22", <<"U+03B7", "U+0313", "U+0300">>>>,
      <<"U+1F23", <<"U+03B7", "U+0314", "U+0300">>>>,
      <<"U+1F24", <<"U+03B7", "U+0313", "U+0301">>>>,
      <<"U+1F25", <<"U+03B7", "U+0314", "U+0301">>>>,
      <<"U+1F26", <<"U+03B7", "U+0313", "U+0342">>>>,
      <<"U+1F27", <<"U+03B7", "U+0314", "U+0342">>>>,
      <<"U+1F28", <<"U+0397", "U+0313">>>>,
      <<"U+1F29", <<"U+0397", "U+0314">>>>,
      <<"U+1F2A", <<"U+0397", "U+0313", "U+0300">>>>,
      <<"U+1F2B", <<"U+0397", "U+0314", "U+0300">>>>,
      <<"U+1F2C", <<"U+0397", "U+0313", "U+0301">>>>,
      <<"U+1F2D", <<"U+0397", "U+0314", "U+0301">>>>,
      <<"U+1F2E", <<"U+0397", "U+0313", "U+0342">>>>,
      <<"U+1F2F", <<"U+0397", "U+0314", "U+0342">>>>,
      <<"U+1F30", <<"U+03B9", "U+0313">>>>,
      <<"U+1F31", <<"U+03B9", "U+0314">>>>,
      <<"U+1F32", <<"U+03B9", "U+0313", "U+0300">>>>,
      <<"U+1F33", <<"U+03B9", "U+0314", "U+0300">>>>,
      <<"U+1F34", <<"U+03B9", "U+0313", "U+0301">>>>,
      <<"U+1F35", <<"U+03B9", "U+0314", "U+0301">>>>,
      <<"U+1F36", <<"U+03B9", "U+0313", "U+0342">>>>,
      <<"U+1F37", <<"U+03B9", "U+0314", "U+0342">>>>,
      <<"U+1F38", <<"U+0399", "U+0313">>>>,
      <<"U+1F39", <<"U+0399", "U+0314">>>>,
      <<"U+1F3A", <<"U+0399", "U+0313", "U+0300">>>>,
      <<"U+1F3B", <<"U+0399", "U+0314", "U+0300">>>>,
      <<"U+1F3C", <<"U+0399", "U+0313", "U+0301">>>>,
      <<"U+1F3D", <<"U+0399", "U+0314", "U+0301">>>>,
      <<"U+1F3E", <<"U+0399", "U+0313", "U+0342">>>>,
      <<"U+1F3F", <<"U+0399", "U+0314", "U+0342">>>>,
      <<"U+1F40", <<"U+03BF", "U+0313">>>>,
      <<"U+1F41", <<"U+03BF", "U+0314">>>>,
      <<"U+1F42", <<"U+03BF", "U+0313", "U+0300">>>>,
      <<"U+1F43", <<"U+03BF", "U+0314", "U+0300">>>>,
      <<"U+1F44", <<"U+03BF", "U+0313", "U+0301">>>>,
      <<"U+1F45", <<"U+03BF", "U+0314", "U+0301">>>>,
      <<"U+1F48", <<"U+039F", "U+0313">>>>,
      <<"U+1F49", <<"U+039F", "U+0314">>>>,
      <<"U+1F4A", <<"U+039F", "U+0313", "U+0300">>>>,
      <<"U+1F4B", <<"U+039F", "U+0314", "U+0300">>>>,
      <<"U+1F4C", <<"U+039F", "U+0313", "U+0301">>>>,
      <<"U+1F4D", <<"U+039F", "U+0314", "U+0301">>>>,
      <<"U+1F50", <<"U+03C5", "U+0313">>>>,
      <<"U+1F51", <<"U+03C5", "U+0314">>>>,
      <<"U+1F52", <<"U+03C5", "U+0313", "U+0300">>>>,
      <<"U+1F53", <<"U+03C5", "U+0314", "U+0300">>>>,
      <<"U+1F54", <<"U+03C5", "U+0313", "U+0301">>>>,
      <<"U+1F55", <<"U+03C5", "U+0314", "U+0301">>>>,
      <<"U+1F56", <<"U+03C5", "U+0313", "U+0342">>>>,
      <<"U+1F57", <<"U+03C5", "U+0314", "U+0342">>>>,
      <<"U+1F59", <<"U+03A5", "U+0314">>>>,
      <<"U+1F5B", <<"U+03A5", "U+0314", "U+0300">>>>,
      <<"U+1F5D", <<"U+03A5", "U+0314", "U+0301">>>>,
      <<"U+1F5F", <<"U+03A5", "U+0314", "U+0342">>>>,
      <<"U+1F60", <<"U+03C9", "U+0313">>>>,
      <<"U+1F61", <<"U+03C9", "U+0314">>>>,
      <<"U+1F62", <<"U+03C9", "U+0313", "U+0300">>>>,
      <<"U+1F63", <<"U+03C9", "U+0314", "U+0300">>>>,
      <<"U+1F64", <<"U+03C9", "U+0313", "U+0301">>>>,
      <<"U+1F65", <<"U+03C9", "U+0314", "U+0301">>>>,
      <<"U+1F66", <<"U+03C9", "U+0313", "U+0342">>>>,
      <<"U+1F67", <<"U+03C9", "U+0314", "U+0342">>>>,
      <<"U+1F68", <<"U+03A9", "U+0313">>>>,
      <<"U+1F69", <<"U+03A9", "U+0314">>>>,
      <<"U+1F6A", <<"U+03A9", "U+0313", "U+0300">>>>,
      <<"U+1F6B", <<"U+03A9", "U+0314", "U+0300">>>>,
      <<"U+1F6C", <<"U+03A9", "U+0313", "U+0301">>>>,
      <<"U+1F6D", <<"U+03A9", "U+0314", "U+0301">>>>,
      <<"U+1F6E", <<"U+03A9", "U+0313", "U+0342">>>>,
      <<"U+1F6F", <<"U+03A9", "U+0314", "U+0342">>>>,
      <<"U+1F70", <<"U+03B1", "U+0300">>>>,
      <<"U+1F71", <<"U+03B1", "U+0301">>>>,
      <<"U+1F72", <<"U+03B5", "U+0300">>>>,
      <<"U+1F73", <<"U+03B5", "U+0301">>>>,
      <<"U+1F74", <<"U+03B7", "U+0300">>>>,
      <<"U+1F75", <<"U+03B7", "U+0301">>>>,
      <<"U+1F76", <<"U+03B9", "U+0300">>>>,
      <<"U+1F77", <<"U+03B9", "U+0301">>>>,
      <<"U+1F78", <<"U+03BF", "U+0300">>>>,
      <<"U+1F79", <<"U+03BF", "U+0301">>>>,
      <<"U+1F7A", <<"U+03C5", "U+0300">>>>,
      <<"U+1F7B", <<"U+03C5", "U+0301">>>>,
      <<"U+1F7C", <<"U+03C9", "U+0300">>>>,
      <<"U+1F7D", <<"U+03C9", "U+0301">>>>,
      <<"U+1F80", <<"U+03B1", "U+0313", "U+0345">>>>,
      <<"U+1F81", <<"U+03B1", "U+0314", "U+0345">>>>,
      <<"U+1F82", <<"U+03B1", "U+0313", "U+0300", "U+0345">>>>,
      <<"U+1F83", <<"U+03B1", "U+0314", "U+0300", "U+0345">>>>,
      <<"U+1F84", <<"U+03B1", "U+0313", "U+0301", "U+0345">>>>,
      <<"U+1F85", <<"U+03B1", "U+0314", "U+0301", "U+0345">>>>,
      <<"U+1F86", <<"U+03B1", "U+0313", "U+0342", "U+0345">>>>,
      <<"U+1F87", <<"U+03B1", "U+0314", "U+0342", "U+0345">>>>,
      <<"U+1F88", <<"U+0391", "U+0313", "U+0345">>>>,
      <<"U+1F89", <<"U+0391", "U+0314", "U+0345">>>>,
      <<"U+1F8A", <<"U+0391", "U+0313", "U+0300", "U+0345">>>>,
      <<"U+1F8B", <<"U+0391", "U+0314", "U+0300", "U+0345">>>>,
      <<"U+1F8C", <<"U+0391", "U+0313", "U+0301", "U+0345">>>>,
      <<"U+1F8D", <<"U+0391", "U+0314", "U+0301", "U+0345">>>>,
      <<"U+1F8E", <<"U+0391", "U+0313", "U+0342", "U+0345">>>>,
      <<"U+1F8F", <<"U+0391", "U+0314", "U+0342", "U+0345">>>>,
      <<"U+1F90", <<"U+03B7", "U+0313", "U+0345">>>>,
      <<"U+1F91", <<"U+03B7", "U+0314", "U+0345">>>>,
      <<"U+1F92", <<"U+03B7", "U+0313", "U+0300", "U+0345">>>>,
      <<"U+1F93", <<"U+03B7", "U+0314", "U+0300", "U+0345">>>>,
      <<"U+1F94", <<"U+03B7", "U+0313", "U+0301", "U+0345">>>>,
      <<"U+1F95", <<"U+03B7", "U+0314", "U+0301", "U+0345">>>>,
      <<"U+1F96", <<"U+03B7", "U+0313", "U+0342", "U+0345">>>>,
      <<"U+1F97", <<"U+03B7", "U+0314", "U+0342", "U+0345">>>>,
      <<"U+1F98", <<"U+0397", "U+0313", "U+0345">>>>,
      <<"U+1F99", <<"U+0397", "U+0314", "U+0345">>>>,
      <<"U+1F9A", <<"U+0397", "U+0313", "U+0300", "U+0345">>>>,
      <<"U+1F9B", <<"U+0397", "U+0314", "U+0300", "U+0345">>>>,
      <<"U+1F9C", <<"U+0397", "U+0313", "U+0301", "U+0345">>>>,
      <<"U+1F9D", <<"U+0397", "U+0314", "U+0301", "U+0345">>>>,
      <<"U+1F9E", <<"U+0397", "U+0313", "U+0342", "U+0345">>>>,
      <<"U+1F9F", <<"U+0397", "U+0314", "U+0342", "U+0345">>>>,
      <<"U+1FA0", <<"U+03C9", "U+0313", "U+0345">>>>,
      <<"U+1FA1", <<"U+03C9", "U+0314", "U+0345">>>>,
      <<"U+1FA2", <<"U+03C9", "U+0313", "U+0300", "U+0345">>>>,
      <<"U+1FA3", <<"U+03C9", "U+0314", "U+0300", "U+0345">>>>,
      <<"U+1FA4", <<"U+03C9", "U+0313", "U+0301", "U+0345">>>>,
      <<"U+1FA5", <<"U+03C9", "U+0314", "U+0301", "U+0345">>>>,
      <<"U+1FA6", <<"U+03C9", "U+0313", "U+0342", "U+0345">>>>,
      <<"U+1FA7", <<"U+03C9", "U+0314", "U+0342", "U+0345">>>>,
      <<"U+1FA8", <<"U+03A9", "U+0313", "U+0345">>>>,
      <<"U+1FA9", <<"U+03A9", "U+0314", "U+0345">>>>,
      <<"U+1FAA", <<"U+03A9", "U+0313", "U+0300", "U+0345">>>>,
      <<"U+1FAB", <<"U+03A9", "U+0314", "U+0300", "U+0345">>>>,
      <<"U+1FAC", <<"U+03A9", "U+0313", "U+0301", "U+0345">>>>,
      <<"U+1FAD", <<"U+03A9", "U+0314", "U+0301", "U+0345">>>>,
      <<"U+1FAE", <<"U+03A9", "U+0313", "U+0342", "U+0345">>>>,
      <<"U+1FAF", <<"U+03A9", "U+0314", "U+0342", "U+0345">>>>,
      <<"U+1FB0", <<"U+03B1", "U+0306">>>>,
      <<"U+1FB1", <<"U+03B1", "U+0304">>>>,
      <<"U+1FB2", <<"U+03B1", "U+0300", "U+0345">>>>,
      <<"U+1FB3", <<"U+03B1", "U+0345">>>>,
      <<"U+1FB4", <<"U+03B1", "U+0301", "U+0345">>>>,
      <<"U+1FB6", <<"U+03B1", "U+0342">>>>,
      <<"U+1FB7", <<"U+03B1", "U+0342", "U+0345">>>>,
      <<"U+1FB8", <<"U+0391", "U+0306">>>>,
      <<"U+1FB9", <<"U+0391", "U+0304">>>>,
      <<"U+1FBA", <<"U+0391", "U+0300">>>>,
      <<"U+1FBB", <<"U+0391", "U+0301">>>>,
      <<"U+1FBC", <<"U+0391", "U+0345">>>>, <<"U+1FBE", <<"U+03B9">>>>,
      <<"U+1FC1", <<"¨", "U+0342">>>>,
      <<"U+1FC2", <<"U+03B7", "U+0300", "U+0345">>>>,
      <<"U+1FC3", <<"U+03B7", "U+0345">>>>,
      <<"U+1FC4", <<"U+03B7", "U+0301", "U+0345">>>>,
      <<"U+1FC6", <<"U+03B7", "U+0342">>>>,
      <<"U+1FC7", <<"U+03B7", "U+0342", "U+0345">>>>,
      <<"U+1FC8", <<"U+0395", "U+0300">>>>,
      <<"U+1FC9", <<"U+0395", "U+0301">>>>,
      <<"U+1FCA", <<"U+0397", "U+0300">>>>,
      <<"U+1FCB", <<"U+0397", "U+0301">>>>,
      <<"U+1FCC", <<"U+0397", "U+0345">>>>,
      <<"U+1FCD", <<"U+1FBF", "U+0300">>>>,
      <<"U+1FCE", <<"U+1FBF", "U+0301">>>>,
      <<"U+1FCF", <<"U+1FBF", "U+0342">>>>,
      <<"U+1FD0", <<"U+03B9", "U+0306">>>>,
      <<"U+1FD1", <<"U+03B9", "U+0304">>>>,
      <<"U+1FD2", <<"U+03B9", "combining-diaeresis", "U+0300">>>>,
      <<"U+1FD3", <<"U+03B9", "combining-diaeresis", "U+0301">>>>,
      <<"U+1FD6", <<"U+03B9", "U+0342">>>>,
      <<"U+1FD7", <<"U+03B9", "combining-diaeresis", "U+0342">>>>,
      <<"U+1FD8", <<"U+0399", "U+0306">>>>,
      <<"U+1FD9", <<"U+0399", "U+0304">>>>,
      <<"U+1FDA", <<"U+0399", "U+0300">>>>,
      <<"U+1FDB", <<"U+0399", "U+0301">>>>,
      <<"U+1FDD", <<"U+1FFE", "U+0300">>>>,
      <<"U+1FDE", <<"U+1FFE", "U+0301">>>>,
      <<"U+1FDF", <<"U+1FFE", "U+0342">>>>,
      <<"U+1FE0", <<"U+03C5", "U+0306">>>>,
      <<"U+1FE1", <<"U+03C5", "U+0304">>>>,
      <<"U+1FE2", <<"U+03C5", "combining-diaeresis", "U+0300">>>>,
      <<"U+1FE3", <<"U+03C5", "combining-diaeresis", "U+0301">>>>,
      <<"U+1FE4", <<"U+03C1", "U+0313">>>>,
      <<"U+1FE5", <<"U+03C1", "U+0314">>>>,
      <<"U+1FE6", <<"U+03C5", "U+0342">>>>,
      <<"U+1FE7", <<"U+03C5", "combining-diaeresis", "U+0342">>>>,
      <<"U+1FE8", <<"U+03A5", "U+0306">>>>,
      <<"U+1FE9", <<"U+03A5", "U+0304">>>>,
      <<"U+1FEA", <<"U+03A5", "U+0300">>>>,
      <<"U+1FEB", <<"U+03A5", "U+0301">>>>,
      <<"U+1FEC", <<"U+03A1", "U+0314">>>>, <<"U+1FED", <<"¨", "U+0300">>>>,
      <<"U+1FEE", <<"¨", "U+0301">>>>, <<"U+1FEF", <<"U+0060">>>>,
      <<"U+1FF2", <<"U+03C9", "U+0300", "U+0345">>>>,
      <<"U+1FF3", <<"U+03C9", "U+0345">>>>,
      <<"U+1FF4", <<"U+03C9", "U+0301", "U+0345">>>>,
      <<"U+1FF6", <<"U+03C9", "U+0342">>>>,
      <<"U+1FF7", <<"U+03C9", "U+0342", "U+0345">>>>,
      <<"U+1FF8", <<"U+039F", "U+0300">>>>,
      <<"U+1FF9", <<"U+039F", "U+0301">>>>,
      <<"U+1FFA", <<"U+03A9", "U+0300">>>>,
      <<"U+1FFB", <<"U+03A9", "U+0301">>>>,
      <<"U+1FFC", <<"U+03A9", "U+0345">>>>, <<"U+1FFD", <<"´">>>>,
      <<"U+2000", <<"U+2002">>>>, <<"U+2001", <<"U+2003">>>>,
      <<"U+2126", <<"U+03A9">>>>, <<"U+212A", <<"K">>>>,
      <<"U+212B", <<"A", "U+030A">>>>, <<"U+219A", <<"U+2190", "U+0338">>>>,
      <<"U+219B", <<"U+2192", "U+0338">>>>,
      <<"U+21AE", <<"U+2194", "U+0338">>>>,
      <<"U+21CD", <<"U+21D0", "U+0338">>>>,
      <<"U+21CE", <<"U+21D4", "U+0338">>>>,
      <<"U+21CF", <<"U+21D2", "U+0338">>>>,
      <<"U+2204", <<"U+2203", "U+0338">>>>,
      <<"U+2209", <<"U+2208", "U+0338">>>>,
      <<"U+220C", <<"U+220B", "U+0338">>>>,
      <<"U+2224", <<"U+2223", "U+0338">>>>,
      <<"U+2226", <<"U+2225", "U+0338">>>>,
      <<"U+2241", <<"U+223C", "U+0338">>>>,
      <<"U+2244", <<"U+2243", "U+0338">>>>,
      <<"U+2247", <<"U+2245", "U+0338">>>>,
      <<"U+2249", <<"U+2248", "U+0338">>>>, <<"U+2260", <<"=", "U+0338">>>>,
      <<"U+2262", <<"U+2261", "U+0338">>>>,
      <<"U+226D", <<"U+224D", "U+0338">>>>, <<"U+226E", <<"<", "U+0338">>>>,
      <<"U+226F", <<">", "U+0338">>>>, <<"U+2270", <<"U+2264", "U+0338">>>>,
      <<"U+2271", <<"U+2265", "U+0338">>>>,
      <<"U+2274", <<"U+2272", "U+0338">>>>,
      <<"U+2275", <<"U+2273", "U+0338">>>>,
      <<"U+2278", <<"U+2276", "U+0338">>>>,
      <<"U+2279", <<"U+2277", "U+0338">>>>,
      <<"U+2280", <<"U+227A", "U+0338">>>>,
      <<"U+2281", <<"U+227B", "U+0338">>>>,
      <<"U+2284", <<"U+2282", "U+0338">>>>,
      <<"U+2285", <<"U+2283", "U+0338">>>>,
      <<"U+2288", <<"U+2286", "U+0338">>>>,
      <<"U+2289", <<"U+2287", "U+0338">>>>,
      <<"U+22AC", <<"U+22A2", "U+0338">>>>,
      <<"U+22AD", <<"U+22A8", "U+0338">>>>,
      <<"U+22AE", <<"U+22A9", "U+0338">>>>,
      <<"U+22AF", <<"U+22AB", "U+0338">>>>,
      <<"U+22E0", <<"U+227C", "U+0338">>>>,
      <<"U+22E1", <<"U+227D", "U+0338">>>>,
      <<"U+22E2", <<"U+2291", "U+0338">>>>,
      <<"U+22E3", <<"U+2292", "U+0338">>>>,
      <<"U+22EA", <<"U+22B2", "U+0338">>>>,
      <<"U+22EB", <<"U+22B3", "U+0338">>>>,
      <<"U+22EC", <<"U+22B4", "U+0338">>>>,
      <<"U+22ED", <<"U+22B5", "U+0338">>>>, <<"U+2329", <<"U+3008">>>>,
      <<"U+232A", <<"U+3009">>>>, <<"U+2ADC", <<"U+2ADD", "U+0338">>>>,
      <<"U+304C", <<"U+304B", "U+3099">>>>,
      <<"U+304E", <<"U+304D", "U+3099">>>>,
      <<"U+3050", <<"U+304F", "U+3099">>>>,
      <<"U+3052", <<"U+3051", "U+3099">>>>,
      <<"U+3054", <<"U+3053", "U+3099">>>>,
      <<"U+3056", <<"U+3055", "U+3099">>>>,
      <<"U+3058", <<"U+3057", "U+3099">>>>,
      <<"U+305A", <<"U+3059", "U+3099">>>>,
      <<"U+305C", <<"U+305B", "U+3099">>>>,
      <<"U+305E", <<"U+305D", "U+3099">>>>,
      <<"U+3060", <<"U+305F", "U+3099">>>>,
      <<"U+3062", <<"U+3061", "U+3099">>>>,
      <<"U+3065", <<"U+3064", "U+3099">>>>,
      <<"U+3067", <<"U+3066", "U+3099">>>>,
      <<"U+3069", <<"U+3068", "U+3099">>>>,
      <<"U+3070", <<"U+306F", "U+3099">>>>,
      <<"U+3071", <<"U+306F", "U+309A">>>>,
      <<"U+3073", <<"U+3072", "U+3099">>>>,
      <<"U+3074", <<"U+3072", "U+309A">>>>,
      <<"U+3076", <<"U+3075", "U+3099">>>>,
      <<"U+3077", <<"U+3075", "U+309A">>>>,
      <<"U+3079", <<"U+3078", "U+3099">>>>,
      <<"U+307A", <<"U+3078", "U+309A">>>>,
      <<"U+307C", <<"U+307B", "U+3099">>>>,
      <<"U+307D", <<"U+307B", "U+309A">>>>,
      <<"U+3094", <<"U+3046", "U+3099">>>>,
      <<"U+309E", <<"U+309D", "U+3099">>>>,
      <<"U+30AC", <<"U+30AB", "U+3099">>>>,
      <<"U+30AE", <<"U+30AD", "U+3099">>>>,
      <<"U+30B0", <<"U+30AF", "U+3099">>>>,
      <<"U+30B2", <<"U+30B1", "U+3099">>>>,
      <<"U+30B4", <<"U+30B3", "U+3099">>>>,
      <<"U+30B6", <<"U+30B5", "U+3099">>>>,
      <<"U+30B8", <<"U+30B7", "U+3099">>>>,
      <<"U+30BA", <<"U+30B9", "U+3099">>>>,
      <<"U+30BC", <<"U+30BB", "U+3099">>>>,
      <<"U+30BE", <<"U+30BD", "U+3099">>>>,
      <<"U+30C0", <<"U+30BF", "U+3099">>>>,
      <<"U+30C2", <<"U+30C1", "U+3099">>>>,
      <<"U+30C5", <<"U+30C4", "U+3099">>>>,
      <<"U+30C7", <<"U+30C6", "U+3099">>>>,
      <<"U+30C9", <<"U+30C8", "U+3099">>>>,
      <<"U+30D0", <<"U+30CF", "U+3099">>>>,
      <<"U+30D1", <<"U+30CF", "U+309A">>>>,
      <<"U+30D3", <<"U+30D2", "U+3099">>>>,
      <<"U+30D4", <<"U+30D2", "U+309A">>>>,
      <<"U+30D6", <<"U+30D5", "U+3099">>>>,
      <<"U+30D7", <<"U+30D5", "U+309A">>>>,
      <<"U+30D9", <<"U+30D8", "U+3099">>>>,
      <<"U+30DA", <<"U+30D8", "U+309A">>>>,
      <<"U+30DC", <<"U+30DB", "U+3099">>>>,
      <<"U+30DD", <<"U+30DB", "U+309A">>>>,
      <<"U+30F4", <<"U+30A6", "U+3099">>>>,
      <<"U+30F7", <<"U+30EF", "U+3099">>>>,
      <<"U+30F8", <<"U+30F0", "U+3099">>>>,
      <<"U+30F9", <<"U+30F1", "U+3099">>>>,
      <<"U+30FA", <<"U+30F2", "U+3099">>>>,
      <<"U+30FE", <<"U+30FD", "U+3099">>>>, <<"U+F900", <<"U+8C48">>>>,
      <<"U+F901", <<"U+66F4">>>>, <<"U+F902", <<"U+8ECA">>>>,
      <<"U+F903", <<"U+8CC8">>>>, <<"U+F904", <<"U+6ED1">>>>,
      <<"U+F905", <<"U+4E32">>>>, <<"U+F906", <<"U+53E5">>>>,
      <<"U+F907", <<"U+9F9C">>>>, <<"U+F908", <<"U+9F9C">>>>,
      <<"U+F909", <<"U+5951">>>>, <<"U+F90A", <<"U+91D1">>>>,
      <<"U+F90B", <<"U+5587">>>>, <<"U+F90C", <<"U+5948">>>>,
      <<"U+F90D", <<"U+61F6">>>>, <<"U+F90E", <<"U+7669">>>>,
      <<"U+F90F", <<"U+7F85">>>>, <<"U+F910", <<"U+863F">>>>,
      <<"U+F911", <<"U+87BA">>>>, <<"U+F912", <<"U+88F8">>>>,
      <<"U+F913", <<"U+908F">>>>, <<"U+F914", <<"U+6A02">>>>,
      <<"U+F915", <<"U+6D1B">>>>, <<"U+F916", <<"U+70D9">>>>,
      <<"U+F917", <<"U+73DE">>>>, <<"U+F918", <<"U+843D">>>>,
      <<"U+F919", <<"U+916A">>>>, <<"U+F91A", <<"U+99F1">>>>,
      <<"U+F91B", <<"U+4E82">>>>, <<"U+F91C", <<"U+5375">>>>,
      <<"U+F91D", <<"U+6B04">>>>, <<"U+F91E", <<"U+721B">>>>,
      <<"U+F91F", <<"U+862D">>>>, <<"U+F920", <<"U+9E1E">>>>,
      <<"U+F921", <<"U+5D50">>>>, <<"U+F922", <<"U+6FEB">>>>,
      <<"U+F923", <<"U+85CD">>>>, <<"U+F924", <<"U+8964">>>>,
      <<"U+F925", <<"U+62C9">>>>, <<"U+F926", <<"U+81D8">>>>,
      <<"U+F927", <<"U+881F">>>>, <<"U+F928", <<"U+5ECA">>>>,
      <<"U+F929", <<"U+6717">>>>, <<"U+F92A", <<"U+6D6A">>>>,
      <<"U+F92B", <<"U+72FC">>>>, <<"U+F92C", <<"U+90CE">>>>,
      <<"U+F92D", <<"U+4F86">>>>, <<"U+F92E", <<"U+51B7">>>>,
      <<"U+F92F", <<"U+52DE">>>>, <<"U+F930", <<"U+64C4">>>>,
      <<"U+F931", <<"U+6AD3">>>>, <<"U+F932", <<"U+7210">>>>,
      <<"U+F933", <<"U+76E7">>>>, <<"U+F934", <<"U+8001">>>>,
      <<"U+F935", <<"U+8606">>>>, <<"U+F936", <<"U+865C">>>>,
      <<"U+F937", <<"U+8DEF">>>>, <<"U+F938", <<"U+9732">>>>,
      <<"U+F939", <<"U+9B6F">>>>, <<"U+F93A", <<"U+9DFA">>>>,
      <<"U+F93B", <<"U+788C">>>>, <<"U+F93C", <<"U+797F">>>>,
      <<"U+F93D", <<"U+7DA0">>>>, <<"U+F93E", <<"U+83C9">>>>,
      <<"U+F93F", <<"U+9304">>>>, <<"U+F940", <<"U+9E7F">>>>,
      <<"U+F941", <<"U+8AD6">>>>, <<"U+F942", <<"U+58DF">>>>,
      <<"U+F943", <<"U+5F04">>>>, <<"U+F944", <<"U+7C60">>>>,
      <<"U+F945", <<"U+807E">>>>, <<"U+F946", <<"U+7262">>>>,
      <<"U+F947", <<"U+78CA">>>>, <<"U+F948", <<"U+8CC2">>>>,
      <<"U+F949", <<"U+96F7">>>>, <<"U+F94A", <<"U+58D8">>>>,
      <<"U+F94B", <<"U+5C62">>>>, <<"U+F94C", <<"U+6A13">>>>,
      <<"U+F94D", <<"U+6DDA">>>>, <<"U+F94E", <<"U+6F0F">>>>,
      <<"U+F94F", <<"U+7D2F">>>>, <<"U+F950", <<"U+7E37">>>>,
      <<"U+F951", <<"U+964B">>>>, <<"U+F952", <<"U+52D2">>>>,
      <<"U+F953", <<"U+808B">>>>, <<"U+F954", <<"U+51DC">>>>,
      <<"U+F955", <<"U+51CC">>>>, <<"U+F956", <<"U+7A1C">>>>,
      <<"U+F957", <<"U+7DBE">>>>, <<"U+F958", <<"U+83F1">>>>,
      <<"U+F959", <<"U+9675">>>>, <<"U+F95A", <<"U+8B80">>>>,
      <<"U+F95B", <<"U+62CF">>>>, <<"U+F95C", <<"U+6A02">>>>,
      <<"U+F95D", <<"U+8AFE">>>>, <<"U+F95E", <<"U+4E39">>>>,
      <<"U+F95F", <<"U+5BE7">>>>, <<"U+F960", <<"U+6012">>>>,
      <<"U+F961", <<"U+7387">>>>, <<"U+F962", <<"U+7570">>>>,
      <<"U+F963", <<"U+5317">>>>, <<"U+F964", <<"U+78FB">>>>,
      <<"U+F965", <<"U+4FBF">>>>, <<"U+F966", <<"U+5FA9">>>>,
      <<"U+F967", <<"U+4E0D">>>>, <<"U+F968", <<"U+6CCC">>>>,
      <<"U+F969", <<"U+6578">>>>, <<"U+F96A", <<"U+7D22">>>>,
      <<"U+F96B", <<"U+53C3">>>>, <<"U+F96C", <<"U+585E">>>>,
      <<"U+F96D", <<"U+7701">>>>, <<"U+F96E", <<"U+8449">>>>,
      <<"U+F96F", <<"U+8AAA">>>>, <<"U+F970", <<"U+6BBA">>>>,
      <<"U+F971", <<"U+8FB0">>>>, <<"U+F972", <<"U+6C88">>>>,
      <<"U+F973", <<"U+62FE">>>>, <<"U+F974", <<"U+82E5">>>>,
      <<"U+F975", <<"U+63A0">>>>, <<"U+F976", <<"U+7565">>>>,
      <<"U+F977", <<"U+4EAE">>>>, <<"U+F978", <<"U+5169">>>>,
      <<"U+F979", <<"U+51C9">>>>, <<"U+F97A", <<"U+6881">>>>,
      <<"U+F97B", <<"U+7CE7">>>>, <<"U+F97C", <<"U+826F">>>>,
      <<"U+F97D", <<"U+8AD2">>>>, <<"U+F97E", <<"U+91CF">>>>,
      <<"U+F97F", <<"U+52F5">>>>, <<"U+F980", <<"U+5442">>>>,
      <<"U+F981", <<"U+5973">>>>, <<"U+F982", <<"U+5EEC">>>>,
      <<"U+F983", <<"U+65C5">>>>, <<"U+F984", <<"U+6FFE">>>>,
      <<"U+F985", <<"U+792A">>>>, <<"U+F986", <<"U+95AD">>>>,
      <<"U+F987", <<"U+9A6A">>>>, <<"U+F988", <<"U+9E97">>>>,
      <<"U+F989", <<"U+9ECE">>>>, <<"U+F98A", <<"U+529B">>>>,
      <<"U+F98B", <<"U+66C6">>>>, <<"U+F98C", <<"U+6B77">>>>,
      <<"U+F98D", <<"U+8F62">>>>, <<"U+F98E", <<"U+5E74">>>>,
      <<"U+F98F", <<"U+6190">>>>, <<"U+F990", <<"U+6200">>>>,
      <<"U+F991", <<"U+649A">>>>, <<"U+F992", <<"U+6F23">>>>,
      <<"U+F993", <<"U+7149">>>>, <<"U+F994", <<"U+7489">>>>,
      <<"U+F995", <<"U+79CA">>>>, <<"U+F996", <<"U+7DF4">>>>,
      <<"U+F997", <<"U+806F">>>>, <<"U+F998", <<"U+8F26">>>>,
      <<"U+F999", <<"U+84EE">>>>, <<"U+F99A", <<"U+9023">>>>,
      <<"U+F99B", <<"U+934A">>>>, <<"U+F99C", <<"U+5217">>>>,
      <<"U+F99D", <<"U+52A3">>>>, <<"U+F99E", <<"U+54BD">>>>,
      <<"U+F99F", <<"U+70C8">>>>, <<"U+F9A0", <<"U+88C2">>>>,
      <<"U+F9A1", <<"U+8AAA">>>>, <<"U+F9A2", <<"U+5EC9">>>>,
      <<"U+F9A3", <<"U+5FF5">>>>, <<"U+F9A4", <<"U+637B">>>>,
      <<"U+F9A5", <<"U+6BAE">>>>, <<"U+F9A6", <<"U+7C3E">>>>,
      <<"U+F9A7", <<"U+7375">>>>, <<"U+F9A8", <<"U+4EE4">>>>,
      <<"U+F9A9", <<"U+56F9">>>>, <<"U+F9AA", <<"U+5BE7">>>>,
      <<"U+F9AB", <<"U+5DBA">>>>, <<"U+F9AC", <<"U+601C">>>>,
      <<"U+F9AD", <<"U+73B2">>>>, <<"U+F9AE", <<"U+7469">>>>,
      <<"U+F9AF", <<"U+7F9A">>>>, <<"U+F9B0", <<"U+8046">>>>,
      <<"U+F9B1", <<"U+9234">>>>, <<"U+F9B2", <<"U+96F6">>>>,
      <<"U+F9B3", <<"U+9748">>>>, <<"U+F9B4", <<"U+9818">>>>,
      <<"U+F9B5", <<"U+4F8B">>>>, <<"U+F9B6", <<"U+79AE">>>>,
      <<"U+F9B7", <<"U+91B4">>>>, <<"U+F9B8", <<"U+96B8">>>>,
      <<"U+F9B9", <<"U+60E1">>>>, <<"U+F9BA", <<"U+4E86">>>>,
      <<"U+F9BB", <<"U+50DA">>>>, <<"U+F9BC", <<"U+5BEE">>>>,
      <<"U+F9BD", <<"U+5C3F">>>>, <<"U+F9BE", <<"U+6599">>>>,
      <<"U+F9BF", <<"U+6A02">>>>, <<"U+F9C0", <<"U+71CE">>>>,
      <<"U+F9C1", <<"U+7642">>>>, <<"U+F9C2", <<"U+84FC">>>>,
      <<"U+F9C3", <<"U+907C">>>>, <<"U+F9C4", <<"U+9F8D">>>>,
      <<"U+F9C5", <<"U+6688">>>>, <<"U+F9C6", <<"U+962E">>>>,
      <<"U+F9C7", <<"U+5289">>>>, <<"U+F9C8", <<"U+677B">>>>,
      <<"U+F9C9", <<"U+67F3">>>>, <<"U+F9CA", <<"U+6D41">>>>,
      <<"U+F9CB", <<"U+6E9C">>>>, <<"U+F9CC", <<"U+7409">>>>,
      <<"U+F9CD", <<"U+7559">>>>, <<"U+F9CE", <<"U+786B">>>>,
      <<"U+F9CF", <<"U+7D10">>>>, <<"U+F9D0", <<"U+985E">>>>,
      <<"U+F9D1", <<"U+516D">>>>, <<"U+F9D2", <<"U+622E">>>>,
      <<"U+F9D3", <<"U+9678">>>>, <<"U+F9D4", <<"U+502B">>>>,
      <<"U+F9D5", <<"U+5D19">>>>, <<"U+F9D6", <<"U+6DEA">>>>,
      <<"U+F9D7", <<"U+8F2A">>>>, <<"U+F9D8", <<"U+5F8B">>>>,
      <<"U+F9D9", <<"U+6144">>>>, <<"U+F9DA", <<"U+6817">>>>,
      <<"U+F9DB", <<"U+7387">>>>, <<"U+F9DC", <<"U+9686">>>>,
      <<"U+F9DD", <<"U+5229">>>>, <<"U+F9DE", <<"U+540F">>>>,
      <<"U+F9DF", <<"U+5C65">>>>, <<"U+F9E0", <<"U+6613">>>>,
      <<"U+F9E1", <<"U+674E">>>>, <<"U+F9E2", <<"U+68A8">>>>,
      <<"U+F9E3", <<"U+6CE5">>>>, <<"U+F9E4", <<"U+7406">>>>,
      <<"U+F9E5", <<"U+75E2">>>>, <<"U+F9E6", <<"U+7F79">>>>,
      <<"U+F9E7", <<"U+88CF">>>>, <<"U+F9E8", <<"U+88E1">>>>,
      <<"U+F9E9", <<"U+91CC">>>>, <<"U+F9EA", <<"U+96E2">>>>,
      <<"U+F9EB", <<"U+533F">>>>, <<"U+F9EC", <<"U+6EBA">>>>,
      <<"U+F9ED", <<"U+541D">>>>, <<"U+F9EE", <<"U+71D0">>>>,
      <<"U+F9EF", <<"U+7498">>>>, <<"U+F9F0", <<"U+85FA">>>>,
      <<"U+F9F1", <<"U+96A3">>>>, <<"U+F9F2", <<"U+9C57">>>>,
      <<"U+F9F3", <<"U+9E9F">>>>, <<"U+F9F4", <<"U+6797">>>>,
      <<"U+F9F5", <<"U+6DCB">>>>, <<"U+F9F6", <<"U+81E8">>>>,
      <<"U+F9F7", <<"U+7ACB">>>>, <<"U+F9F8", <<"U+7B20">>>>,
      <<"U+F9F9", <<"U+7C92">>>>, <<"U+F9FA", <<"U+72C0">>>>,
      <<"U+F9FB", <<"U+7099">>>>, <<"U+F9FC", <<"U+8B58">>>>,
      <<"U+F9FD", <<"U+4EC0">>>>, <<"U+F9FE", <<"U+8336">>>>,
      <<"U+F9FF", <<"U+523A">>>>, <<"U+FA00", <<"U+5207">>>>,
      <<"U+FA01", <<"U+5EA6">>>>, <<"U+FA02", <<"U+62D3">>>>,
      <<"U+FA03", <<"U+7CD6">>>>, <<"U+FA04", <<"U+5B85">>>>,
      <<"U+FA05", <<"U+6D1E">>>>, <<"U+FA06", <<"U+66B4">>>>,
      <<"U+FA07", <<"U+8F3B">>>>, <<"U+FA08", <<"U+884C">>>>,
      <<"U+FA09", <<"U+964D">>>>, <<"U+FA0A", <<"U+898B">>>>,
      <<"U+FA0B", <<"U+5ED3">>>>, <<"U+FA0C", <<"U+5140">>>>,
      <<"U+FA0D", <<"U+55C0">>>>, <<"U+FA10", <<"U+585A">>>>,
      <<"U+FA12", <<"U+6674">>>>, <<"U+FA15", <<"U+51DE">>>>,
      <<"U+FA16", <<"U+732A">>>>, <<"U+FA17", <<"U+76CA">>>>,
      <<"U+FA18", <<"U+793C">>>>, <<"U+FA19", <<"U+795E">>>>,
      <<"U+FA1A", <<"U+7965">>>>, <<"U+FA1B", <<"U+798F">>>>,
      <<"U+FA1C", <<"U+9756">>>>, <<"U+FA1D", <<"U+7CBE">>>>,
      <<"U+FA1E", <<"U+7FBD">>>>, <<"U+FA20", <<"U+8612">>>>,
      <<"U+FA22", <<"U+8AF8">>>>, <<"U+FA25", <<"U+9038">>>>,
      <<"U+FA26", <<"U+90FD">>>>, <<"U+FA2A", <<"U+98EF">>>>,
      <<"U+FA2B", <<"U+98FC">>>>, <<"U+FA2C", <<"U+9928">>>>,
      <<"U+FA2D", <<"U+9DB4">>>>, <<"U+FA2E", <<"U+90DE">>>>,
      <<"U+FA2F", <<"U+96B7">>>>, <<"U+FA30", <<"U+4FAE">>>>,
      <<"U+FA31", <<"U+50E7">>>>, <<"U+FA32", <<"U+514D">>>>,
      <<"U+FA33", <<"U+52C9">>>>, <<"U+FA34", <<"U+52E4">>>>,
      <<"U+FA35", <<"U+5351">>>>, <<"U+FA36", <<"U+559D">>>>,
      <<"U+FA37", <<"U+5606">>>>, <<"U+FA38", <<"U+5668">>>>,
      <<"U+FA39", <<"U+5840">>>>, <<"U+FA3A", <<"U+58A8">>>>,
      <<"U+FA3B", <<"U+5C64">>>>, <<"U+FA3C", <<"U+5C6E">>>>,
      <<"U+FA3D", <<"U+6094">>>>, <<"U+FA3E", <<"U+6168">>>>,
      <<"U+FA3F", <<"U+618E">>>>, <<"U+FA40", <<"U+61F2">>>>,
      <<"U+FA41", <<"U+654F">>>>, <<"U+FA42", <<"U+65E2">>>>,
      <<"U+FA43", <<"U+6691">>>>, <<"U+FA44", <<"U+6885">>>>,
      <<"U+FA45", <<"U+6D77">>>>, <<"U+FA46", <<"U+6E1A">>>>,
      <<"U+FA47", <<"U+6F22">>>>, <<"U+FA48", <<"U+716E">>>>,
      <<"U+FA49", <<"U+722B">>>>, <<"U+FA4A", <<"U+7422">>>>,
      <<"U+FA4B", <<"U+7891">>>>, <<"U+FA4C", <<"U+793E">>>>,
      <<"U+FA4D", <<"U+7949">>>>, <<"U+FA4E", <<"U+7948">>>>,
      <<"U+FA4F", <<"U+7950">>>>, <<"U+FA50", <<"U+7956">>>>,
      <<"U+FA51", <<"U+795D">>>>, <<"U+FA52", <<"U+798D">>>>,
      <<"U+FA53", <<"U+798E">>>>, <<"U+FA54", <<"U+7A40">>>>,
      <<"U+FA55", <<"U+7A81">>>>, <<"U+FA56", <<"U+7BC0">>>>,
      <<"U+FA57", <<"U+7DF4">>>>, <<"U+FA58", <<"U+7E09">>>>,
      <<"U+FA59", <<"U+7E41">>>>, <<"U+FA5A", <<"U+7F72">>>>,
      <<"U+FA5B", <<"U+8005">>>>, <<"U+FA5C", <<"U+81ED">>>>,
      <<"U+FA5D", <<"U+8279">>>>, <<"U+FA5E", <<"U+8279">>>>,
      <<"U+FA5F", <<"U+8457">>>>, <<"U+FA60", <<"U+8910">>>>,
      <<"U+FA61", <<"U+8996">>>>, <<"U+FA62", <<"U+8B01">>>>,
      <<"U+FA63", <<"U+8B39">>>>, <<"U+FA64", <<"U+8CD3">>>>,
      <<"U+FA65", <<"U+8D08">>>>, <<"U+FA66", <<"U+8FB6">>>>,
      <<"U+FA67", <<"U+9038">>>>, <<"U+FA68", <<"U+96E3">>>>,
      <<"U+FA69", <<"U+97FF">>>>, <<"U+FA6A", <<"U+983B">>>>,
      <<"U+FA6B", <<"U+6075">>>>, <<"U+FA6C", <<"U+242EE">>>>,
      <<"U+FA6D", <<"U+8218">>>>, <<"U+FA70", <<"U+4E26">>>>,
      <<"U+FA71", <<"U+51B5">>>>, <<"U+FA72", <<"U+5168">>>>,
      <<"U+FA73", <<"U+4F80">>>>, <<"U+FA74", <<"U+5145">>>>,
      <<"U+FA75", <<"U+5180">>>>, <<"U+FA76", <<"U+52C7">>>>,
      <<"U+FA77", <<"U+52FA">>>>, <<"U+FA78", <<"U+559D">>>>,
      <<"U+FA79", <<"U+5555">>>>, <<"U+FA7A", <<"U+5599">>>>,
      <<"U+FA7B", <<"U+55E2">>>>, <<"U+FA7C", <<"U+585A">>>>,
      <<"U+FA7D", <<"U+58B3">>>>, <<"U+FA7E", <<"U+5944">>>>,
      <<"U+FA7F", <<"U+5954">>>>, <<"U+FA80", <<"U+5A62">>>>,
      <<"U+FA81", <<"U+5B28">>>>, <<"U+FA82", <<"U+5ED2">>>>,
      <<"U+FA83", <<"U+5ED9">>>>, <<"U+FA84", <<"U+5F69">>>>,
      <<"U+FA85", <<"U+5FAD">>>>, <<"U+FA86", <<"U+60D8">>>>,
      <<"U+FA87", <<"U+614E">>>>, <<"U+FA88", <<"U+6108">>>>,
      <<"U+FA89", <<"U+618E">>>>, <<"U+FA8A", <<"U+6160">>>>,
      <<"U+FA8B", <<"U+61F2">>>>, <<"U+FA8C", <<"U+6234">>>>,
      <<"U+FA8D", <<"U+63C4">>>>, <<"U+FA8E", <<"U+641C">>>>,
      <<"U+FA8F", <<"U+6452">>>>, <<"U+FA90", <<"U+6556">>>>,
      <<"U+FA91", <<"U+6674">>>>, <<"U+FA92", <<"U+6717">>>>,
      <<"U+FA93", <<"U+671B">>>>, <<"U+FA94", <<"U+6756">>>>,
      <<"U+FA95", <<"U+6B79">>>>, <<"U+FA96", <<"U+6BBA">>>>,
      <<"U+FA97", <<"U+6D41">>>>, <<"U+FA98", <<"U+6EDB">>>>,
      <<"U+FA99", <<"U+6ECB">>>>, <<"U+FA9A", <<"U+6F22">>>>,
      <<"U+FA9B", <<"U+701E">>>>, <<"U+FA9C", <<"U+716E">>>>,
      <<"U+FA9D", <<"U+77A7">>>>, <<"U+FA9E", <<"U+7235">>>>,
      <<"U+FA9F", <<"U+72AF">>>>, <<"U+FAA0", <<"U+732A">>>>,
      <<"U+FAA1", <<"U+7471">>>>, <<"U+FAA2", <<"U+7506">>>>,
      <<"U+FAA3", <<"U+753B">>>>, <<"U+FAA4", <<"U+761D">>>>,
      <<"U+FAA5", <<"U+761F">>>>, <<"U+FAA6", <<"U+76CA">>>>,
      <<"U+FAA7", <<"U+76DB">>>>, <<"U+FAA8", <<"U+76F4">>>>,
      <<"U+FAA9", <<"U+774A">>>>, <<"U+FAAA", <<"U+7740">>>>,
      <<"U+FAAB", <<"U+78CC">>>>, <<"U+FAAC", <<"U+7AB1">>>>,
      <<"U+FAAD", <<"U+7BC0">>>>, <<"U+FAAE", <<"U+7C7B">>>>,
      <<"U+FAAF", <<"U+7D5B">>>>, <<"U+FAB0", <<"U+7DF4">>>>,
      <<"U+FAB1", <<"U+7F3E">>>>, <<"U+FAB2", <<"U+8005">>>>,
      <<"U+FAB3", <<"U+8352">>>>, <<"U+FAB4", <<"U+83EF">>>>,
      <<"U+FAB5", <<"U+8779">>>>, <<"U+FAB6", <<"U+8941">>>>,
      <<"U+FAB7", <<"U+8986">>>>, <<"U+FAB8", <<"U+8996">>>>,
      <<"U+FAB9", <<"U+8ABF">>>>, <<"U+FABA", <<"U+8AF8">>>>,
      <<"U+FABB", <<"U+8ACB">>>>, <<"U+FABC", <<"U+8B01">>>>,
      <<"U+FABD", <<"U+8AFE">>>>, <<"U+FABE", <<"U+8AED">>>>,
      <<"U+FABF", <<"U+8B39">>>>, <<"U+FAC0", <<"U+8B8A">>>>,
      <<"U+FAC1", <<"U+8D08">>>>, <<"U+FAC2", <<"U+8F38">>>>,
      <<"U+FAC3", <<"U+9072">>>>, <<"U+FAC4", <<"U+9199">>>>,
      <<"U+FAC5", <<"U+9276">>>>, <<"U+FAC6", <<"U+967C">>>>,
      <<"U+FAC7", <<"U+96E3">>>>, <<"U+FAC8", <<"U+9756">>>>,
      <<"U+FAC9", <<"U+97DB">>>>, <<"U+FACA", <<"U+97FF">>>>,
      <<"U+FACB", <<"U+980B">>>>, <<"U+FACC", <<"U+983B">>>>,
      <<"U+FACD", <<"U+9B12">>>>, <<"U+FACE", <<"U+9F9C">>>>,
      <<"U+FACF", <<"U+2284A">>>>, <<"U+FAD0", <<"U+22844">>>>,
      <<"U+FAD1", <<"U+233D5">>>>, <<"U+FAD2", <<"U+3B9D">>>>,
      <<"U+FAD3", <<"U+4018">>>>, <<"U+FAD4", <<"U+4039">>>>,
      <<"U+FAD5", <<"U+25249">>>>, <<"U+FAD6", <<"U+25CD0">>>>,
      <<"U+FAD7", <<"U+27ED3">>>>, <<"U+FAD8", <<"U+9F43">>>>,
      <<"U+FAD9", <<"U+9F8E">>>>, <<"U+FB1D", <<"U+05D9", "U+05B4">>>>,
      <<"U+FB1F", <<"U+05F2", "U+05B7">>>>,
      <<"U+FB2A", <<"U+05E9", "U+05C1">>>>,
      <<"U+FB2B", <<"U+05E9", "U+05C2">>>>,
      <<"U+FB2C", <<"U+05E9", "U+05BC", "U+05C1">>>>,
      <<"U+FB2D", <<"U+05E9", "U+05BC", "U+05C2">>>>,
      <<"U+FB2E", <<"U+05D0", "U+05B7">>>>,
      <<"U+FB2F", <<"U+05D0", "U+05B8">>>>,
      <<"U+FB30", <<"U+05D0", "U+05BC">>>>,
      <<"U+FB31", <<"U+05D1", "U+05BC">>>>,
      <<"U+FB32", <<"U+05D2", "U+05BC">>>>,
      <<"U+FB33", <<"U+05D3", "U+05BC">>>>,
      <<"U+FB34", <<"U+05D4", "U+05BC">>>>,
      <<"U+FB35", <<"U+05D5", "U+05BC">>>>,
      <<"U+FB36", <<"U+05D6", "U+05BC">>>>,
      <<"U+FB38", <<"U+05D8", "U+05BC">>>>,
      <<"U+FB39", <<"U+05D9", "U+05BC">>>>,
      <<"U+FB3A", <<"U+05DA", "U+05BC">>>>,
      <<"U+FB3B", <<"U+05DB", "U+05BC">>>>,
      <<"U+FB3C", <<"U+05DC", "U+05BC">>>>,
      <<"U+FB3E", <<"U+05DE", "U+05BC">>>>,
      <<"U+FB40", <<"U+05E0", "U+05BC">>>>,
      <<"U+FB41", <<"U+05E1", "U+05BC">>>>,
      <<"U+FB43", <<"U+05E3", "U+05BC">>>>,
      <<"U+FB44", <<"U+05E4", "U+05BC">>>>,
      <<"U+FB46", <<"U+05E6", "U+05BC">>>>,
      <<"U+FB47", <<"U+05E7", "U+05BC">>>>,
      <<"U+FB48", <<"U+05E8", "U+05BC">>>>,
      <<"U+FB49", <<"U+05E9", "U+05BC">>>>,
      <<"U+FB4A", <<"U+05EA", "U+05BC">>>>,
      <<"U+FB4B", <<"U+05D5", "U+05B9">>>>,
      <<"U+FB4C", <<"U+05D1", "U+05BF">>>>,
      <<"U+FB4D", <<"U+05DB", "U+05BF">>>>,
      <<"U+FB4E", <<"U+05E4", "U+05BF">>>>,
      <<"U+1109A", <<"U+11099", "U+110BA">>>>,
      <<"U+1109C", <<"U+1109B", "U+110BA">>>>,
      <<"U+110AB", <<"U+110A5", "U+110BA">>>>,
      <<"U+1112E", <<"U+11131", "U+11127">>>>,
      <<"U+1112F", <<"U+11132", "U+11127">>>>,
      <<"U+1134B", <<"U+11347", "U+1133E">>>>,
      <<"U+1134C", <<"U+11347", "U+11357">>>>,
      <<"U+114BB", <<"U+114B9", "U+114BA">>>>,
      <<"U+114BC", <<"U+114B9", "U+114B0">>>>,
      <<"U+114BE", <<"U+114B9", "U+114BD">>>>,
      <<"U+115BA", <<"U+115B8", "U+115AF">>>>,
      <<"U+115BB", <<"U+115B9", "U+115AF">>>>,
      <<"U+11938", <<"U+11935", "U+11930">>>>,
      <<"U+1D15E", <<"U+1D157", "U+1D165">>>>,
      <<"U+1D15F", <<"U+1D158", "U+1D165">>>>,
      <<"U+1D160", <<"U+1D158", "U+1D165", "U+1D16E">>>>,
      <<"U+1D161", <<"U+1D158", "U+1D165", "U+1D16F">>>>,
      <<"U+1D162", <<"U+1D158", "U+1D165", "U+1D170">>>>,
      <<"U+1D163", <<"U+1D158", "U+1D165", "U+1D171">>>>,
      <<"U+1D164", <<"U+1D158", "U+1D165", "U+1D172">>>>,
      <<"U+1D1BB", <<"U+1D1B9", "U+1D165">>>>,
      <<"U+1D1BC", <<"U+1D1BA", "U+1D165">>>>,
      <<"U+1D1BD", <<"U+1D1B9", "U+1D165", "U+1D16E">>>>,
      <<"U+1D1BE", <<"U+1D1BA", "U+1D165", "U+1D16E">>>>,
      <<"U+1D1BF", <<"U+1D1B9", "U+1D165", "U+1D16F">>>>,
      <<"U+1D1C0", <<"U+1D1BA", "U+1D165", "U+1D16F">>>>,
      <<"U+2F800", <<"U+4E3D">>>>, <<"U+2F801", <<"U+4E38">>>>,
      <<"U+2F802", <<"U+4E41">>>>, <<"U+2F803", <<"U+20122">>>>,
      <<"U+2F804", <<"U+4F60">>>>, <<"U+2F805", <<"U+4FAE">>>>,
      <<"U+2F806", <<"U+4FBB">>>>, <<"U+2F807", <<"U+5002">>>>,
      <<"U+2F808", <<"U+507A">>>>, <<"U+2F809", <<"U+5099">>>>,
      <<"U+2F80A", <<"U+50E7">>>>, <<"U+2F80B", <<"U+50CF">>>>,
      <<"U+2F80C", <<"U+349E">>>>, <<"U+2F80D", <<"U+2063A">>>>,
      <<"U+2F80E", <<"U+514D">>>>, <<"U+2F80F", <<"U+5154">>>>,
      <<"U+2F810", <<"U+5164">>>>, <<"U+2F811", <<"U+5177">>>>,
      <<"U+2F812", <<"U+2051C">>>>, <<"U+2F813", <<"U+34B9">>>>,
      <<"U+2F814", <<"U+5167">>>>, <<"U+2F815", <<"U+518D">>>>,
      <<"U+2F816", <<"U+2054B">>>>, <<"U+2F817", <<"U+5197">>>>,
      <<"U+2F818", <<"U+51A4">>>>, <<"U+2F819", <<"U+4ECC">>>>,
      <<"U+2F81A", <<"U+51AC">>>>, <<"U+2F81B", <<"U+51B5">>>>,
      <<"U+2F81C", <<"U+291DF">>>>, <<"U+2F81D", <<"U+51F5">>>>,
      <<"U+2F81E", <<"U+5203">>>>, <<"U+2F81F", <<"U+34DF">>>>,
      <<"U+2F820", <<"U+523B">>>>, <<"U+2F821", <<"U+5246">>>>,
      <<"U+2F822", <<"U+5272">>>>, <<"U+2F823", <<"U+5277">>>>,
      <<"U+2F824", <<"U+3515">>>>, <<"U+2F825", <<"U+52C7">>>>,
      <<"U+2F826", <<"U+52C9">>>>, <<"U+2F827", <<"U+52E4">>>>,
      <<"U+2F828", <<"U+52FA">>>>, <<"U+2F829", <<"U+5305">>>>,
      <<"U+2F82A", <<"U+5306">>>>, <<"U+2F82B", <<"U+5317">>>>,
      <<"U+2F82C", <<"U+5349">>>>, <<"U+2F82D", <<"U+5351">>>>,
      <<"U+2F82E", <<"U+535A">>>>, <<"U+2F82F", <<"U+5373">>>>,
      <<"U+2F830", <<"U+537D">>>>, <<"U+2F831", <<"U+537F">>>>,
      <<"U+2F832", <<"U+537F">>>>, <<"U+2F833", <<"U+537F">>>>,
      <<"U+2F834", <<"U+20A2C">>>>, <<"U+2F835", <<"U+7070">>>>,
      <<"U+2F836", <<"U+53CA">>>>, <<"U+2F837", <<"U+53DF">>>>,
      <<"U+2F838", <<"U+20B63">>>>, <<"U+2F839", <<"U+53EB">>>>,
      <<"U+2F83A", <<"U+53F1">>>>, <<"U+2F83B", <<"U+5406">>>>,
      <<"U+2F83C", <<"U+549E">>>>, <<"U+2F83D", <<"U+5438">>>>,
      <<"U+2F83E", <<"U+5448">>>>, <<"U+2F83F", <<"U+5468">>>>,
      <<"U+2F840", <<"U+54A2">>>>, <<"U+2F841", <<"U+54F6">>>>,
      <<"U+2F842", <<"U+5510">>>>, <<"U+2F843", <<"U+5553">>>>,
      <<"U+2F844", <<"U+5563">>>>, <<"U+2F845", <<"U+5584">>>>,
      <<"U+2F846", <<"U+5584">>>>, <<"U+2F847", <<"U+5599">>>>,
      <<"U+2F848", <<"U+55AB">>>>, <<"U+2F849", <<"U+55B3">>>>,
      <<"U+2F84A", <<"U+55C2">>>>, <<"U+2F84B", <<"U+5716">>>>,
      <<"U+2F84C", <<"U+5606">>>>, <<"U+2F84D", <<"U+5717">>>>,
      <<"U+2F84E", <<"U+5651">>>>, <<"U+2F84F", <<"U+5674">>>>,
      <<"U+2F850", <<"U+5207">>>>, <<"U+2F851", <<"U+58EE">>>>,
      <<"U+2F852", <<"U+57CE">>>>, <<"U+2F853", <<"U+57F4">>>>,
      <<"U+2F854", <<"U+580D">>>>, <<"U+2F855", <<"U+578B">>>>,
      <<"U+2F856", <<"U+5832">>>>, <<"U+2F857", <<"U+5831">>>>,
      <<"U+2F858", <<"U+58AC">>>>, <<"U+2F859", <<"U+214E4">>>>,
      <<"U+2F85A", <<"U+58F2">>>>, <<"U+2F85B", <<"U+58F7">>>>,
      <<"U+2F85C", <<"U+5906">>>>, <<"U+2F85D", <<"U+591A">>>>,
      <<"U+2F85E", <<"U+5922">>>>, <<"U+2F85F", <<"U+5962">>>>,
      <<"U+2F860", <<"U+216A8">>>>, <<"U+2F861", <<"U+216EA">>>>,
      <<"U+2F862", <<"U+59EC">>>>, <<"U+2F863", <<"U+5A1B">>>>,
      <<"U+2F864", <<"U+5A27">>>>, <<"U+2F865", <<"U+59D8">>>>,
      <<"U+2F866", <<"U+5A66">>>>, <<"U+2F867", <<"U+36EE">>>>,
      <<"U+2F868", <<"U+36FC">>>>, <<"U+2F869", <<"U+5B08">>>>,
      <<"U+2F86A", <<"U+5B3E">>>>, <<"U+2F86B", <<"U+5B3E">>>>,
      <<"U+2F86C", <<"U+219C8">>>>, <<"U+2F86D", <<"U+5BC3">>>>,
      <<"U+2F86E", <<"U+5BD8">>>>, <<"U+2F86F", <<"U+5BE7">>>>,
      <<"U+2F870", <<"U+5BF3">>>>, <<"U+2F871", <<"U+21B18">>>>,
      <<"U+2F872", <<"U+5BFF">>>>, <<"U+2F873", <<"U+5C06">>>>,
      <<"U+2F874", <<"U+5F53">>>>, <<"U+2F875", <<"U+5C22">>>>,
      <<"U+2F876", <<"U+3781">>>>, <<"U+2F877", <<"U+5C60">>>>,
      <<"U+2F878", <<"U+5C6E">>>>, <<"U+2F879", <<"U+5CC0">>>>,
      <<"U+2F87A", <<"U+5C8D">>>>, <<"U+2F87B", <<"U+21DE4">>>>,
      <<"U+2F87C", <<"U+5D43">>>>, <<"U+2F87D", <<"U+21DE6">>>>,
      <<"U+2F87E", <<"U+5D6E">>>>, <<"U+2F87F", <<"U+5D6B">>>>,
      <<"U+2F880", <<"U+5D7C">>>>, <<"U+2F881", <<"U+5DE1">>>>,
      <<"U+2F882", <<"U+5DE2">>>>, <<"U+2F883", <<"U+382F">>>>,
      <<"U+2F884", <<"U+5DFD">>>>, <<"U+2F885", <<"U+5E28">>>>,
      <<"U+2F886", <<"U+5E3D">>>>, <<"U+2F887", <<"U+5E69">>>>,
      <<"U+2F888", <<"U+3862">>>>, <<"U+2F889", <<"U+22183">>>>,
      <<"U+2F88A", <<"U+387C">>>>, <<"U+2F88B", <<"U+5EB0">>>>,
      <<"U+2F88C", <<"U+5EB3">>>>, <<"U+2F88D", <<"U+5EB6">>>>,
      <<"U+2F88E", <<"U+5ECA">>>>, <<"U+2F88F", <<"U+2A392">>>>,
      <<"U+2F890", <<"U+5EFE">>>>, <<"U+2F891", <<"U+22331">>>>,
      <<"U+2F892", <<"U+22331">>>>, <<"U+2F893", <<"U+8201">>>>,
      <<"U+2F894", <<"U+5F22">>>>, <<"U+2F895", <<"U+5F22">>>>,
      <<"U+2F896", <<"U+38C7">>>>, <<"U+2F897", <<"U+232B8">>>>,
      <<"U+2F898", <<"U+261DA">>>>, <<"U+2F899", <<"U+5F62">>>>,
      <<"U+2F89A", <<"U+5F6B">>>>, <<"U+2F89B", <<"U+38E3">>>>,
      <<"U+2F89C", <<"U+5F9A">>>>, <<"U+2F89D", <<"U+5FCD">>>>,
      <<"U+2F89E", <<"U+5FD7">>>>, <<"U+2F89F", <<"U+5FF9">>>>,
      <<"U+2F8A0", <<"U+6081">>>>, <<"U+2F8A1", <<"U+393A">>>>,
      <<"U+2F8A2", <<"U+391C">>>>, <<"U+2F8A3", <<"U+6094">>>>,
      <<"U+2F8A4", <<"U+226D4">>>>, <<"U+2F8A5", <<"U+60C7">>>>,
      <<"U+2F8A6", <<"U+6148">>>>, <<"U+2F8A7", <<"U+614C">>>>,
      <<"U+2F8A8", <<"U+614E">>>>, <<"U+2F8A9", <<"U+614C">>>>,
      <<"U+2F8AA", <<"U+617A">>>>, <<"U+2F8AB", <<"U+618E">>>>,
      <<"U+2F8AC", <<"U+61B2">>>>, <<"U+2F8AD", <<"U+61A4">>>>,
      <<"U+2F8AE", <<"U+61AF">>>>, <<"U+2F8AF", <<"U+61DE">>>>,
      <<"U+2F8B0", <<"U+61F2">>>>, <<"U+2F8B1", <<"U+61F6">>>>,
      <<"U+2F8B2", <<"U+6210">>>>, <<"U+2F8B3", <<"U+621B">>>>,
      <<"U+2F8B4", <<"U+625D">>>>, <<"U+2F8B5", <<"U+62B1">>>>,
      <<"U+2F8B6", <<"U+62D4">>>>, <<"U+2F8B7", <<"U+6350">>>>,
      <<"U+2F8B8", <<"U+22B0C">>>>, <<"U+2F8B9", <<"U+633D">>>>,
      <<"U+2F8BA", <<"U+62FC">>>>, <<"U+2F8BB", <<"U+6368">>>>,
      <<"U+2F8BC", <<"U+6383">>>>, <<"U+2F8BD", <<"U+63E4">>>>,
      <<"U+2F8BE", <<"U+22BF1">>>>, <<"U+2F8BF", <<"U+6422">>>>,
      <<"U+2F8C0", <<"U+63C5">>>>, <<"U+2F8C1", <<"U+63A9">>>>,
      <<"U+2F8C2", <<"U+3A2E">>>>, <<"U+2F8C3", <<"U+6469">>>>,
      <<"U+2F8C4", <<"U+647E">>>>, <<"U+2F8C5", <<"U+649D">>>>,
      <<"U+2F8C6", <<"U+6477">>>>, <<"U+2F8C7", <<"U+3A6C">>>>,
      <<"U+2F8C8", <<"U+654F">>>>, <<"U+2F8C9", <<"U+656C">>>>,
      <<"U+2F8CA", <<"U+2300A">>>>, <<"U+2F8CB", <<"U+65E3">>>>,
      <<"U+2F8CC", <<"U+66F8">>>>, <<"U+2F8CD", <<"U+6649">>>>,
      <<"U+2F8CE", <<"U+3B19">>>>, <<"U+2F8CF", <<"U+6691">>>>,
      <<"U+2F8D0", <<"U+3B08">>>>, <<"U+2F8D1", <<"U+3AE4">>>>,
      <<"U+2F8D2", <<"U+5192">>>>, <<"U+2F8D3", <<"U+5195">>>>,
      <<"U+2F8D4", <<"U+6700">>>>, <<"U+2F8D5", <<"U+669C">>>>,
      <<"U+2F8D6", <<"U+80AD">>>>, <<"U+2F8D7", <<"U+43D9">>>>,
      <<"U+2F8D8", <<"U+6717">>>>, <<"U+2F8D9", <<"U+671B">>>>,
      <<"U+2F8DA", <<"U+6721">>>>, <<"U+2F8DB", <<"U+675E">>>>,
      <<"U+2F8DC", <<"U+6753">>>>, <<"U+2F8DD", <<"U+233C3">>>>,
      <<"U+2F8DE", <<"U+3B49">>>>, <<"U+2F8DF", <<"U+67FA">>>>,
      <<"U+2F8E0", <<"U+6785">>>>, <<"U+2F8E1", <<"U+6852">>>>,
      <<"U+2F8E2", <<"U+6885">>>>, <<"U+2F8E3", <<"U+2346D">>>>,
      <<"U+2F8E4", <<"U+688E">>>>, <<"U+2F8E5", <<"U+681F">>>>,
      <<"U+2F8E6", <<"U+6914">>>>, <<"U+2F8E7", <<"U+3B9D">>>>,
      <<"U+2F8E8", <<"U+6942">>>>, <<"U+2F8E9", <<"U+69A3">>>>,
      <<"U+2F8EA", <<"U+69EA">>>>, <<"U+2F8EB", <<"U+6AA8">>>>,
      <<"U+2F8EC", <<"U+236A3">>>>, <<"U+2F8ED", <<"U+6ADB">>>>,
      <<"U+2F8EE", <<"U+3C18">>>>, <<"U+2F8EF", <<"U+6B21">>>>,
      <<"U+2F8F0", <<"U+238A7">>>>, <<"U+2F8F1", <<"U+6B54">>>>,
      <<"U+2F8F2", <<"U+3C4E">>>>, <<"U+2F8F3", <<"U+6B72">>>>,
      <<"U+2F8F4", <<"U+6B9F">>>>, <<"U+2F8F5", <<"U+6BBA">>>>,
      <<"U+2F8F6", <<"U+6BBB">>>>, <<"U+2F8F7", <<"U+23A8D">>>>,
      <<"U+2F8F8", <<"U+21D0B">>>>, <<"U+2F8F9", <<"U+23AFA">>>>,
      <<"U+2F8FA", <<"U+6C4E">>>>, <<"U+2F8FB", <<"U+23CBC">>>>,
      <<"U+2F8FC", <<"U+6CBF">>>>, <<"U+2F8FD", <<"U+6CCD">>>>,
      <<"U+2F8FE", <<"U+6C67">>>>, <<"U+2F8FF", <<"U+6D16">>>>,
      <<"U+2F900", <<"U+6D3E">>>>, <<"U+2F901", <<"U+6D77">>>>,
      <<"U+2F902", <<"U+6D41">>>>, <<"U+2F903", <<"U+6D69">>>>,
      <<"U+2F904", <<"U+6D78">>>>, <<"U+2F905", <<"U+6D85">>>>,
      <<"U+2F906", <<"U+23D1E">>>>, <<"U+2F907", <<"U+6D34">>>>,
      <<"U+2F908", <<"U+6E2F">>>>, <<"U+2F909", <<"U+6E6E">>>>,
      <<"U+2F90A", <<"U+3D33">>>>, <<"U+2F90B", <<"U+6ECB">>>>,
      <<"U+2F90C", <<"U+6EC7">>>>, <<"U+2F90D", <<"U+23ED1">>>>,
      <<"U+2F90E", <<"U+6DF9">>>>, <<"U+2F90F", <<"U+6F6E">>>>,
      <<"U+2F910", <<"U+23F5E">>>>, <<"U+2F911", <<"U+23F8E">>>>,
      <<"U+2F912", <<"U+6FC6">>>>, <<"U+2F913", <<"U+7039">>>>,
      <<"U+2F914", <<"U+701E">>>>, <<"U+2F915", <<"U+701B">>>>,
      <<"U+2F916", <<"U+3D96">>>>, <<"U+2F917", <<"U+704A">>>>,
      <<"U+2F918", <<"U+707D">>>>, <<"U+2F919", <<"U+7077">>>>,
      <<"U+2F91A", <<"U+70AD">>>>, <<"U+2F91B", <<"U+20525">>>>,
      <<"U+2F91C", <<"U+7145">>>>, <<"U+2F91D", <<"U+24263">>>>,
      <<"U+2F91E", <<"U+719C">>>>, <<"U+2F91F", <<"U+243AB">>>>,
      <<"U+2F920", <<"U+7228">>>>, <<"U+2F921", <<"U+7235">>>>,
      <<"U+2F922", <<"U+7250">>>>, <<"U+2F923", <<"U+24608">>>>,
      <<"U+2F924", <<"U+7280">>>>, <<"U+2F925", <<"U+7295">>>>,
      <<"U+2F926", <<"U+24735">>>>, <<"U+2F927", <<"U+24814">>>>,
      <<"U+2F928", <<"U+737A">>>>, <<"U+2F929", <<"U+738B">>>>,
      <<"U+2F92A", <<"U+3EAC">>>>, <<"U+2F92B", <<"U+73A5">>>>,
      <<"U+2F92C", <<"U+3EB8">>>>, <<"U+2F92D", <<"U+3EB8">>>>,
      <<"U+2F92E", <<"U+7447">>>>, <<"U+2F92F", <<"U+745C">>>>,
      <<"U+2F930", <<"U+7471">>>>, <<"U+2F931", <<"U+7485">>>>,
      <<"U+2F932", <<"U+74CA">>>>, <<"U+2F933", <<"U+3F1B">>>>,
      <<"U+2F934", <<"U+7524">>>>, <<"U+2F935", <<"U+24C36">>>>,
      <<"U+2F936", <<"U+753E">>>>, <<"U+2F937", <<"U+24C92">>>>,
      <<"U+2F938", <<"U+7570">>>>, <<"U+2F939", <<"U+2219F">>>>,
      <<"U+2F93A", <<"U+7610">>>>, <<"U+2F93B", <<"U+24FA1">>>>,
      <<"U+2F93C", <<"U+24FB8">>>>, <<"U+2F93D", <<"U+25044">>>>,
      <<"U+2F93E", <<"U+3FFC">>>>, <<"U+2F93F", <<"U+4008">>>>,
      <<"U+2F940", <<"U+76F4">>>>, <<"U+2F941", <<"U+250F3">>>>,
      <<"U+2F942", <<"U+250F2">>>>, <<"U+2F943", <<"U+25119">>>>,
      <<"U+2F944", <<"U+25133">>>>, <<"U+2F945", <<"U+771E">>>>,
      <<"U+2F946", <<"U+771F">>>>, <<"U+2F947", <<"U+771F">>>>,
      <<"U+2F948", <<"U+774A">>>>, <<"U+2F949", <<"U+4039">>>>,
      <<"U+2F94A", <<"U+778B">>>>, <<"U+2F94B", <<"U+4046">>>>,
      <<"U+2F94C", <<"U+4096">>>>, <<"U+2F94D", <<"U+2541D">>>>,
      <<"U+2F94E", <<"U+784E">>>>, <<"U+2F94F", <<"U+788C">>>>,
      <<"U+2F950", <<"U+78CC">>>>, <<"U+2F951", <<"U+40E3">>>>,
      <<"U+2F952", <<"U+25626">>>>, <<"U+2F953", <<"U+7956">>>>,
      <<"U+2F954", <<"U+2569A">>>>, <<"U+2F955", <<"U+256C5">>>>,
      <<"U+2F956", <<"U+798F">>>>, <<"U+2F957", <<"U+79EB">>>>,
      <<"U+2F958", <<"U+412F">>>>, <<"U+2F959", <<"U+7A40">>>>,
      <<"U+2F95A", <<"U+7A4A">>>>, <<"U+2F95B", <<"U+7A4F">>>>,
      <<"U+2F95C", <<"U+2597C">>>>, <<"U+2F95D", <<"U+25AA7">>>>,
      <<"U+2F95E", <<"U+25AA7">>>>, <<"U+2F95F", <<"U+7AEE">>>>,
      <<"U+2F960", <<"U+4202">>>>, <<"U+2F961", <<"U+25BAB">>>>,
      <<"U+2F962", <<"U+7BC6">>>>, <<"U+2F963", <<"U+7BC9">>>>,
      <<"U+2F964", <<"U+4227">>>>, <<"U+2F965", <<"U+25C80">>>>,
      <<"U+2F966", <<"U+7CD2">>>>, <<"U+2F967", <<"U+42A0">>>>,
      <<"U+2F968", <<"U+7CE8">>>>, <<"U+2F969", <<"U+7CE3">>>>,
      <<"U+2F96A", <<"U+7D00">>>>, <<"U+2F96B", <<"U+25F86">>>>,
      <<"U+2F96C", <<"U+7D63">>>>, <<"U+2F96D", <<"U+4301">>>>,
      <<"U+2F96E", <<"U+7DC7">>>>, <<"U+2F96F", <<"U+7E02">>>>,
      <<"U+2F970", <<"U+7E45">>>>, <<"U+2F971", <<"U+4334">>>>,
      <<"U+2F972", <<"U+26228">>>>, <<"U+2F973", <<"U+26247">>>>,
      <<"U+2F974", <<"U+4359">>>>, <<"U+2F975", <<"U+262D9">>>>,
      <<"U+2F976", <<"U+7F7A">>>>, <<"U+2F977", <<"U+2633E">>>>,
      <<"U+2F978", <<"U+7F95">>>>, <<"U+2F979", <<"U+7FFA">>>>,
      <<"U+2F97A", <<"U+8005">>>>, <<"U+2F97B", <<"U+264DA">>>>,
      <<"U+2F97C", <<"U+26523">>>>, <<"U+2F97D", <<"U+8060">>>>,
      <<"U+2F97E", <<"U+265A8">>>>, <<"U+2F97F", <<"U+8070">>>>,
      <<"U+2F980", <<"U+2335F">>>>, <<"U+2F981", <<"U+43D5">>>>,
      <<"U+2F982", <<"U+80B2">>>>, <<"U+2F983", <<"U+8103">>>>,
      <<"U+2F984", <<"U+440B">>>>, <<"U+2F985", <<"U+813E">>>>,
      <<"U+2F986", <<"U+5AB5">>>>, <<"U+2F987", <<"U+267A7">>>>,
      <<"U+2F988", <<"U+267B5">>>>, <<"U+2F989", <<"U+23393">>>>,
      <<"U+2F98A", <<"U+2339C">>>>, <<"U+2F98B", <<"U+8201">>>>,
      <<"U+2F98C", <<"U+8204">>>>, <<"U+2F98D", <<"U+8F9E">>>>,
      <<"U+2F98E", <<"U+446B">>>>, <<"U+2F98F", <<"U+8291">>>>,
      <<"U+2F990", <<"U+828B">>>>, <<"U+2F991", <<"U+829D">>>>,
      <<"U+2F992", <<"U+52B3">>>>, <<"U+2F993", <<"U+82B1">>>>,
      <<"U+2F994", <<"U+82B3">>>>, <<"U+2F995", <<"U+82BD">>>>,
      <<"U+2F996", <<"U+82E6">>>>, <<"U+2F997", <<"U+26B3C">>>>,
      <<"U+2F998", <<"U+82E5">>>>, <<"U+2F999", <<"U+831D">>>>,
      <<"U+2F99A", <<"U+8363">>>>, <<"U+2F99B", <<"U+83AD">>>>,
      <<"U+2F99C", <<"U+8323">>>>, <<"U+2F99D", <<"U+83BD">>>>,
      <<"U+2F99E", <<"U+83E7">>>>, <<"U+2F99F", <<"U+8457">>>>,
      <<"U+2F9A0", <<"U+8353">>>>, <<"U+2F9A1", <<"U+83CA">>>>,
      <<"U+2F9A2", <<"U+83CC">>>>, <<"U+2F9A3", <<"U+83DC">>>>,
      <<"U+2F9A4", <<"U+26C36">>>>, <<"U+2F9A5", <<"U+26D6B">>>>,
      <<"U+2F9A6", <<"U+26CD5">>>>, <<"U+2F9A7", <<"U+452B">>>>,
      <<"U+2F9A8", <<"U+84F1">>>>, <<"U+2F9A9", <<"U+84F3">>>>,
      <<"U+2F9AA", <<"U+8516">>>>, <<"U+2F9AB", <<"U+273CA">>>>,
      <<"U+2F9AC", <<"U+8564">>>>, <<"U+2F9AD", <<"U+26F2C">>>>,
      <<"U+2F9AE", <<"U+455D">>>>, <<"U+2F9AF", <<"U+4561">>>>,
      <<"U+2F9B0", <<"U+26FB1">>>>, <<"U+2F9B1", <<"U+270D2">>>>,
      <<"U+2F9B2", <<"U+456B">>>>, <<"U+2F9B3", <<"U+8650">>>>,
      <<"U+2F9B4", <<"U+865C">>>>, <<"U+2F9B5", <<"U+8667">>>>,
      <<"U+2F9B6", <<"U+8669">>>>, <<"U+2F9B7", <<"U+86A9">>>>,
      <<"U+2F9B8", <<"U+8688">>>>, <<"U+2F9B9", <<"U+870E">>>>,
      <<"U+2F9BA", <<"U+86E2">>>>, <<"U+2F9BB", <<"U+8779">>>>,
      <<"U+2F9BC", <<"U+8728">>>>, <<"U+2F9BD", <<"U+876B">>>>,
      <<"U+2F9BE", <<"U+8786">>>>, <<"U+2F9BF", <<"U+45D7">>>>,
      <<"U+2F9C0", <<"U+87E1">>>>, <<"U+2F9C1", <<"U+8801">>>>,
      <<"U+2F9C2", <<"U+45F9">>>>, <<"U+2F9C3", <<"U+8860">>>>,
      <<"U+2F9C4", <<"U+8863">>>>, <<"U+2F9C5", <<"U+27667">>>>,
      <<"U+2F9C6", <<"U+88D7">>>>, <<"U+2F9C7", <<"U+88DE">>>>,
      <<"U+2F9C8", <<"U+4635">>>>, <<"U+2F9C9", <<"U+88FA">>>>,
      <<"U+2F9CA", <<"U+34BB">>>>, <<"U+2F9CB", <<"U+278AE">>>>,
      <<"U+2F9CC", <<"U+27966">>>>, <<"U+2F9CD", <<"U+46BE">>>>,
      <<"U+2F9CE", <<"U+46C7">>>>, <<"U+2F9CF", <<"U+8AA0">>>>,
      <<"U+2F9D0", <<"U+8AED">>>>, <<"U+2F9D1", <<"U+8B8A">>>>,
      <<"U+2F9D2", <<"U+8C55">>>>, <<"U+2F9D3", <<"U+27CA8">>>>,
      <<"U+2F9D4", <<"U+8CAB">>>>, <<"U+2F9D5", <<"U+8CC1">>>>,
      <<"U+2F9D6", <<"U+8D1B">>>>, <<"U+2F9D7", <<"U+8D77">>>>,
      <<"U+2F9D8", <<"U+27F2F">>>>, <<"U+2F9D9", <<"U+20804">>>>,
      <<"U+2F9DA", <<"U+8DCB">>>>, <<"U+2F9DB", <<"U+8DBC">>>>,
      <<"U+2F9DC", <<"U+8DF0">>>>, <<"U+2F9DD", <<"U+208DE">>>>,
      <<"U+2F9DE", <<"U+8ED4">>>>, <<"U+2F9DF", <<"U+8F38">>>>,
      <<"U+2F9E0", <<"U+285D2">>>>, <<"U+2F9E1", <<"U+285ED">>>>,
      <<"U+2F9E2", <<"U+9094">>>>, <<"U+2F9E3", <<"U+90F1">>>>,
      <<"U+2F9E4", <<"U+9111">>>>, <<"U+2F9E5", <<"U+2872E">>>>,
      <<"U+2F9E6", <<"U+911B">>>>, <<"U+2F9E7", <<"U+9238">>>>,
      <<"U+2F9E8", <<"U+92D7">>>>, <<"U+2F9E9", <<"U+92D8">>>>,
      <<"U+2F9EA", <<"U+927C">>>>, <<"U+2F9EB", <<"U+93F9">>>>,
      <<"U+2F9EC", <<"U+9415">>>>, <<"U+2F9ED", <<"U+28BFA">>>>,
      <<"U+2F9EE", <<"U+958B">>>>, <<"U+2F9EF", <<"U+4995">>>>,
      <<"U+2F9F0", <<"U+95B7">>>>, <<"U+2F9F1", <<"U+28D77">>>>,
      <<"U+2F9F2", <<"U+49E6">>>>, <<"U+2F9F3", <<"U+96C3">>>>,
      <<"U+2F9F4", <<"U+5DB2">>>>, <<"U+2F9F5", <<"U+9723">>>>,
      <<"U+2F9F6", <<"U+29145">>>>, <<"U+2F9F7", <<"U+2921A">>>>,
      <<"U+2F9F8", <<"U+4A6E">>>>, <<"U+2F9F9", <<"U+4A76">>>>,
      <<"U+2F9FA", <<"U+97E0">>>>, <<"U+2F9FB", <<"U+2940A">>>>,
      <<"U+2F9FC", <<"U+4AB2">>>>, <<"U+2F9FD", <<"U+29496">>>>,
      <<"U+2F9FE", <<"U+980B">>>>, <<"U+2F9FF", <<"U+980B">>>>,
      <<"U+2FA00", <<"U+9829">>>>, <<"U+2FA01", <<"U+295B6">>>>,
      <<"U+2FA02", <<"U+98E2">>>>, <<"U+2FA03", <<"U+4B33">>>>,
      <<"U+2FA04", <<"U+9929">>>>, <<"U+2FA05", <<"U+99A7">>>>,
      <<"U+2FA06", <<"U+99C2">>>>, <<"U+2FA07", <<"U+99FE">>>>,
      <<"U+2FA08", <<"U+4BCE">>>>, <<"U+2FA09", <<"U+29B30">>>>,
      <<"U+2FA0A", <<"U+9B12">>>>, <<"U+2FA0B", <<"U+9C40">>>>,
      <<"U+2FA0C", <<"U+9CFD">>>>, <<"U+2FA0D", <<"U+4CCE">>>>,
      <<"U+2FA0E", <<"U+4CED">>>>, <<"U+2FA0F", <<"U+9D67">>>>,
      <<"U+2FA10", <<"U+2A0CE">>>>, <<"U+2FA11", <<"U+4CF8">>>>,
      <<"U+2FA12", <<"U+2A105">>>>, <<"U+2FA13", <<"U+2A20E">>>>,
      <<"U+2FA14", <<"U+2A291">>>>, <<"U+2FA15", <<"U+9EBB">>>>,
      <<"U+2FA16", <<"U+4D56">>>>, <<"U+2FA17", <<"U+9EF9">>>>,
      <<"U+2FA18", <<"U+9EFE">>>>, <<"U+2FA19", <<"U+9F05">>>>,
      <<"U+2FA1A", <<"U+9F0F">>>>, <<"U+2FA1B", <<"U+9F16">>>>,
      <<"U+2FA1C", <<"U+9F3B">>>>, <<"U+2FA1D", <<"U+2A600">>>> >>

DecompositionMap ==
    [c \in {CanonicalDecompositions[i][1] : i \in DOMAIN CanonicalDecompositions} |->
        CanonicalDecompositions[CHOOSE i \in DOMAIN CanonicalDecompositions :
                                    CanonicalDecompositions[i][1] = c][2]]

\* the leading consonants, vowels and trailing consonants of Hangul, and
\* the syllables in code point order: syllable number
\* (l * Len(HangulV) + v) * (Len(HangulT) + 1) + t is made of leading consonant l, vowel v
\* and, when t > 0, trailing consonant t
HangulL == << "U+1100", "U+1101", "U+1102", "U+1103", "U+1104", "U+1105", "U+1106",
      "U+1107", "U+1108", "U+1109", "U+110A", "U+110B", "U+110C", "U+110D",
      "U+110E", "U+110F", "U+1110", "U+1111", "U+1112" >>
HangulV == << "U+1161", "U+1162", "U+1163", "U+1164", "U+1165", "U+1166", "U+1167",
      "U+1168", "U+1169", "U+116A", "U+116B", "U+116C", "U+116D", "U+116E",
      "U+116F", "U+1170", "U+1171", "U+1172", "U+1173", "U+1174", "U+1175" >>
HangulT == << "U+11A8", "U+11A9", "U+11AA", "U+11AB", "U+11AC", "U+11AD", "U+11AE",
      "U+11AF", "U+11B0", "U+11B1", "U+11B2", "U+11B3", "U+11B4", "U+11B5",
      "U+11B6", "U+11B7", "U+11B8", "U+11B9", "U+11BA", "U+11BB", "U+11BC",
      "U+11BD", "U+11BE", "U+11BF", "U+11C0", "U+11C1", "U+11C2" >>
HangulSyllables ==
    <<
      "U+AC00", "U+AC01", "U+AC02", "U+AC03", "U+AC04", "U+AC05", "U+AC06",
      "U+AC07", "U+AC08", "U+AC09", "U+AC0A", "U+AC0B", "U+AC0C", "U+AC0D",
      "U+AC0E", "U+AC0F", "U+AC10", "U+AC11", "U+AC12", "U+AC13", "U+AC14",
      "U+AC15", "U+AC16", "U+AC17", "U+AC18", "U+AC19", "U+AC1A", "U+AC1B",
      "U+AC1C", "U+AC1D", "U+AC1E", "U+AC1F", "U+AC20", "U+AC21", "U+AC22",
      "U+AC23", "U+AC24", "U+AC25", "U+AC26", "U+AC27", "U+AC28", "U+AC29",
      "U+AC2A", "U+AC2B", "U+AC2C", "U+AC2D", "U+AC2E", "U+AC2F", "U+AC30",
      "U+AC31", "U+AC32", "U+AC33", "U+AC34", "U+AC35", "U+AC36", "U+AC37",
      "U+AC38", "U+AC39", "U+AC3A", "U+AC3B", "U+AC3C", "U+AC3D", "U+AC3E",
      "U+AC3F", "U+AC40", "U+AC41", "U+AC42", "U+AC43", "U+AC44", "U+AC45",
      "U+AC46", "U+AC47", "U+AC48", "U+AC49", "U+AC4A", "U+AC4B", "U+AC4C",
      "U+AC4D", "U+AC4E", "U+AC4F", "U+AC50", "U+AC51", "U+AC52", "U+AC53",
      "U+AC54", "U+AC55", "U+AC56", "U+AC57", "U+AC58", "U+AC59", "U+AC5A",
      "U+AC5B", "U+AC5C", "U+AC5D", "U+AC5E", "U+AC5F", "U+AC60", "U+AC61",
      "U+AC62", "U+AC63", "U+AC64", "U+AC65", "U+AC66", "U+AC67", "U+AC68",
      "U+AC69", "U+AC6A", "U+AC6B", "U+AC6C", "U+AC6D", "U+AC6E", "U+AC6F",
      "U+AC70", "U+AC71", "U+AC72", "U+AC73", "U+AC74", "U+AC75", "U+AC76",
      "U+AC77", "U+AC78", "U+AC79", "U+AC7A", "U+AC7B", "U+AC7C", "U+AC7D",
      "U+AC7E", "U+AC7F", "U+AC80", "U+AC81", "U+AC82", "U+AC83", "U+AC84",
      "U+AC85", "U+AC86", "U+AC87", "U+AC88", "U+AC89", "U+AC8A", "U+AC8B",
      "U+AC8C", "U+AC8D", "U+AC8E", "U+AC8F", "U+AC90", "U+AC91", "U+AC92",
      "U+AC93", "U+AC94", "U+AC95", "U+AC96", "U+AC97", "U+AC98", "U+AC99",
      "U+AC9A", "U+AC9B", "U+AC9C", "U+AC9D", "U+AC9E", "U+AC9F", "U+ACA0",
      "U+ACA1", "U+ACA2", "U+ACA3", "U+ACA4", "U+ACA5", "U+ACA6", "U+ACA7",
      "U+ACA8", "U+ACA9", "U+ACAA", "U+ACAB", "U+ACAC", "U+ACAD", "U+ACAE",
      "U+ACAF", "U+ACB0", "U+ACB1", "U+ACB2", "U+ACB3", "U+ACB4", "U+ACB5",
      "U+ACB6", "U+ACB7", "U+ACB8", "U+ACB9", "U+ACBA", "U+ACBB", "U+ACBC",
      "U+ACBD", "U+ACBE", "U+ACBF", "U+ACC0", "U+ACC1", "U+ACC2", "U+ACC3",
      "U+ACC4", "U+ACC5", "U+ACC6", "U+ACC7", "U+ACC8", "U+ACC9", "U+ACCA",
      "U+ACCB", "U+ACCC", "U+ACCD", "U+ACCE", "U+ACCF", "U+ACD0", "U+ACD1",
      "U+ACD2", "U+ACD3", "U+ACD4", "U+ACD5", "U+ACD6", "U+ACD7", "U+ACD8",
      "U+ACD9", "U+ACDA", "U+ACDB", "U+ACDC", "U+ACDD", "U+ACDE", "U+ACDF",
      "U+ACE0", "U+ACE1", "U+ACE2", "U+ACE3", "U+ACE4", "U+ACE5", "U+ACE6",
      "U+ACE7", "U+ACE8", "U+ACE9", "U+ACEA", "U+ACEB", "U+ACEC", "U+ACED",
      "U+ACEE", "U+ACEF", "U+ACF0", "U+ACF1", "U+ACF2", "U+ACF3", "U+ACF4",
      "U+ACF5", "U+ACF6", "U+ACF7", "U+ACF8", "U+ACF9", "U+ACFA", "U+ACFB",
      "U+ACFC", "U+ACFD", "U+ACFE", "U+ACFF", "U+AD00", "U+AD01", "U+AD02",
      "U+AD03", "U+AD04", "U+AD05", "U+AD06", "U+AD07", "U+AD08", "U+AD09",
      "U+AD0A", "U+AD0B", "U+AD0C", "U+AD0D", "U+AD0E", "U+AD0F", "U+AD10",
      "U+AD11", "U+AD12", "U+AD13", "U+AD14", "U+AD15", "U+AD16", "U+AD17",
      "U+AD18", "U+AD19", "U+AD1A", "U+AD1B", "U+AD1C", "U+AD1D", "U+AD1E",
      "U+AD1F", "U+AD20", "U+AD21", "U+AD22", "U+AD23", "U+AD24", "U+AD25",
      "U+AD26", "U+AD27", "U+AD28", "U+AD29", "U+AD2A", "U+AD2B", "U+AD2C",
      "U+AD2D", "U+AD2E", "U+AD2F", "U+AD30", "U+AD31", "U+AD32", "U+AD33",
      "U+AD34", "U+AD35", "U+AD36", "U+AD37", "U+AD38", "U+AD39", "U+AD3A",
      "U+AD3B", "U+AD3C", "U+AD3D", "U+AD3E", "U+AD3F", "U+AD40", "U+AD41",
      "U+AD42", "U+AD43", "U+AD44", "U+AD45", "U+AD46", "U+AD47", "U+AD48",
      "U+AD49", "U+AD4A", "U+AD4B", "U+AD4C", "U+AD4D", "U+AD4E", "U+AD4F",
      "U+AD50", "U+AD51", "U+AD52", "U+AD53", "U+AD54", "U+AD55", "U+AD56",
      "U+AD57", "U+AD58", "U+AD59", "U+AD5A", "U+AD5B", "U+AD5C", "U+AD5D",
      "U+AD5E", "U+AD5F", "U+AD60", "U+AD61", "U+AD62", "U+AD63", "U+AD64",
      "U+AD65", "U+AD66", "U+AD67", "U+AD68", "U+AD69", "U+AD6A", "U+AD6B",
      "U+AD6C", "U+AD6D", "U+AD6E", "U+AD6F", "U+AD70", "U+AD71", "U+AD72",
      "U+AD73", "U+AD74", "U+AD75", "U+AD76", "U+AD77", "U+AD78", "U+AD79",
      "U+AD7A", "U+AD7B", "U+AD7C", "U+AD7D", "U+AD7E", "U+AD7F", "U+AD80",
      "U+AD81", "U+AD82", "U+AD83", "U+AD84", "U+AD85", "U+AD86", "U+AD87",
      "U+AD88", "U+AD89", "U+AD8A", "U+AD8B", "U+AD8C", "U+AD8D", "U+AD8E",
      "U+AD8F", "U+AD90", "U+AD91", "U+AD92", "U+AD93", "U+AD94", "U+AD95",
      "U+AD96", "U+AD97", "U+AD98", "U+AD99", "U+AD9A", "U+AD9B", "U+AD9C",
      "U+AD9D", "U+AD9E", "U+AD9F", "U+ADA0", "U+ADA1", "U+ADA2", "U+ADA3",
      "U+ADA4", "U+ADA5", "U+ADA6", "U+ADA7", "U+ADA8", "U+ADA9", "U+ADAA",
      "U+ADAB", "U+ADAC", "U+ADAD", "U+ADAE", "U+ADAF", "U+ADB0", "U+ADB1",
      "U+ADB2", "U+ADB3", "U+ADB4", "U+ADB5", "U+ADB6", "U+ADB7", "U+ADB8",
      "U+ADB9", "U+ADBA", "U+ADBB", "U+ADBC", "U+ADBD", "U+ADBE", "U+ADBF",
      "U+ADC0", "U+ADC1", "U+ADC2", "U+ADC3", "U+ADC4", "U+ADC5", "U+ADC6",
      "U+ADC7", "U+ADC8", "U+ADC9", "U+ADCA", "U+ADCB", "U+ADCC", "U+ADCD",
      "U+ADCE", "U+ADCF", "U+ADD0", "U+ADD1", "U+ADD2", "U+ADD3", "U+ADD4",
      "U+ADD5", "U+ADD6", "U+ADD7", "U+ADD8", "U+ADD9", "U+ADDA", "U+ADDB",
      "U+ADDC", "U+ADDD", "U+ADDE", "U+ADDF", "U+ADE0", "U+ADE1", "U+ADE2",
      "U+ADE3", "U+ADE4", "U+ADE5", "U+ADE6", "U+ADE7", "U+ADE8", "U+ADE9",
      "U+ADEA", "U+ADEB", "U+ADEC", "U+ADED", "U+ADEE", "U+ADEF", "U+ADF0",
      "U+ADF1", "U+ADF2", "U+ADF3", "U+ADF4", "U+ADF5", "U+ADF6", "U+ADF7",
      "U+ADF8", "U+ADF9", "U+ADFA", "U+ADFB", "U+ADFC", "U+ADFD", "U+ADFE",
      "U+ADFF", "U+AE00", "U+AE01", "U+AE02", "U+AE03", "U+AE04", "U+AE05",
      "U+AE06", "U+AE07", "U+AE08", "U+AE09", "U+AE0A", "U+AE0B", "U+AE0C",
      "U+AE0D", "U+AE0E", "U+AE0F", "U+AE10", "U+AE11", "U+AE12", "U+AE13",
      "U+AE14", "U+AE15", "U+AE16", "U+AE17", "U+AE18", "U+AE19", "U+AE1A",
      "U+AE1B", "U+AE1C", "U+AE1D", "U+AE1E", "U+AE1F", "U+AE20", "U+AE21",
      "U+AE22", "U+AE23", "U+AE24", "U+AE25", "U+AE26", "U+AE27", "U+AE28",
      "U+AE29", "U+AE2A", "U+AE2B", "U+AE2C", "U+AE2D", "U+AE2E", "U+AE2F",
      "U+AE30", "U+AE31", "U+AE32", "U+AE33", "U+AE34", "U+AE35", "U+AE36",
      "U+AE37", "U+AE38", "U+AE39", "U+AE3A", "U+AE3B", "U+AE3C", "U+AE3D",
      "U+AE3E", "U+AE3F", "U+AE40", "U+AE41", "U+AE42", "U+AE43", "U+AE44",
      "U+AE45", "U+AE46", "U+AE47", "U+AE48", "U+AE49", "U+AE4A", "U+AE4B",
      "U+AE4C", "U+AE4D", "U+AE4E", "U+AE4F", "U+AE50", "U+AE51", "U+AE52",
      "U+AE53", "U+AE54", "U+AE55", "U+AE56", "U+AE57", "U+AE58", "U+AE59",
      "U+AE5A", "U+AE5B", "U+AE5C", "U+AE5D", "U+AE5E", "U+AE5F", "U+AE60",
      "U+AE61", "U+AE62", "U+AE63", "U+AE64", "U+AE65", "U+AE66", "U+AE67",
      "U+AE68", "U+AE69", "U+AE6A", "U+AE6B", "U+AE6C", "U+AE6D", "U+AE6E",
      "U+AE6F", "U+AE70", "U+AE71", "U+AE72", "U+AE73", "U+AE74", "U+AE75",
      "U+AE76", "U+AE77", "U+AE78", "U+AE79", "U+AE7A", "U+AE7B", "U+AE7C",
      "U+AE7D", "U+AE7E", "U+AE7F", "U+AE80", "U+AE81", "U+AE82", "U+AE83",
      "U+AE84", "U+AE85", "U+AE86", "U+AE87", "U+AE88", "U+AE89", "U+AE8A",
      "U+AE8B", "U+AE8C", "U+AE8D", "U+AE8E", "U+AE8F", "U+AE90", "U+AE91",
      "U+AE92", "U+AE93", "U+AE94", "U+AE95", "U+AE96", "U+AE97", "U+AE98",
      "U+AE99", "U+AE9A", "U+AE9B", "U+AE9C", "U+AE9D", "U+AE9E", "U+AE9F",
      "U+AEA0", "U+AEA1", "U+AEA2", "U+AEA3", "U+AEA4", "U+AEA5", "U+AEA6",
      "U+AEA7", "U+AEA8", "U+AEA9", "U+AEAA", "U+AEAB", "U+AEAC", "U+AEAD",
      "U+AEAE", "U+AEAF", "U+AEB0", "U+AEB1", "U+AEB2", "U+AEB3", "U+AEB4",
      "U+AEB5", "U+AEB6", "U+AEB7", "U+AEB8", "U+AEB9", "U+AEBA", "U+AEBB",
      "U+AEBC", "U+AEBD", "U+AEBE", "U+AEBF", "U+AEC0", "U+AEC1", "U+AEC2",
      "U+AEC3", "U+AEC4", "U+AEC5", "U+AEC6", "U+AEC7", "U+AEC8", "U+AEC9",
      "U+AECA", "U+AECB", "U+AECC", "U+AECD", "U+AECE", "U+AECF", "U+AED0",
      "U+AED1", "U+AED2", "U+AED3", "U+AED4", "U+AED5", "U+AED6", "U+AED7",
      "U+AED8", "U+AED9", "U+AEDA", "U+AEDB", "U+AEDC", "U+AEDD", "U+AEDE",
      "U+AEDF", "U+AEE0", "U+AEE1", "U+AEE2", "U+AEE3", "U+AEE4", "U+AEE5",
      "U+AEE6", "U+AEE7", "U+AEE8", "U+AEE9", "U+AEEA", "U+AEEB", "U+AEEC",
      "U+AEED", "U+AEEE", "U+AEEF", "U+AEF0", "U+AEF1", "U+AEF2", "U+AEF3",
      "U+AEF4", "U+AEF5", "U+AEF6", "U+AEF7", "U+AEF8", "U+AEF9", "U+AEFA",
      "U+AEFB", "U+AEFC", "U+AEFD", "U+AEFE", "U+AEFF", "U+AF00", "U+AF01",
      "U+AF02", "U+AF03", "U+AF04", "U+AF05", "U+AF06", "U+AF07", "U+AF08",
      "U+AF09", "U+AF0A", "U+AF0B", "U+AF0C", "U+AF0D", "U+AF0E", "U+AF0F",
      "U+AF10", "U+AF11", "U+AF12", "U+AF13", "U+AF14", "U+AF15", "U+AF16",
      "U+AF17", "U+AF18", "U+AF19", "U+AF1A", "U+AF1B", "U+AF1C", "U+AF1D",
      "U+AF1E", "U+AF1F", "U+AF20", "U+AF21", "U+AF22", "U+AF23", "U+AF24",
      "U+AF25", "U+AF26", "U+AF27", "U+AF28", "U+AF29", "U+AF2A", "U+AF2B",
      "U+AF2C", "U+AF2D", "U+AF2E", "U+AF2F", "U+AF30", "U+AF31", "U+AF32",
      "U+AF33", "U+AF34", "U+AF35", "U+AF36", "U+AF37", "U+AF38", "U+AF39",
      "U+AF3A", "U+AF3B", "U+AF3C", "U+AF3D", "U+AF3E", "U+AF3F", "U+AF40",
      "U+AF41", "U+AF42", "U+AF43", "U+AF44", "U+AF45", "U+AF46", "U+AF47",
      "U+AF48", "U+AF49", "U+AF4A", "U+AF4B", "U+AF4C", "U+AF4D", "U+AF4E",
      "U+AF4F", "U+AF50", "U+AF51", "U+AF52", "U+AF53", "U+AF54", "U+AF55",
      "U+AF56", "U+AF57", "U+AF58", "U+AF59", "U+AF5A", "U+AF5B", "U+AF5C",
      "U+AF5D", "U+AF5E", "U+AF5F", "U+AF60", "U+AF61", "U+AF62", "U+AF63",
      "U+AF64", "U+AF65", "U+AF66", "U+AF67", "U+AF68", "U+AF69", "U+AF6A",
      "U+AF6B", "U+AF6C", "U+AF6D", "U+AF6E", "U+AF6F", "U+AF70", "U+AF71",
      "U+AF72", "U+AF73", "U+AF74", "U+AF75", "U+AF76", "U+AF77", "U+AF78",
      "U+AF79", "U+AF7A", "U+AF7B", "U+AF7C", "U+AF7D", "U+AF7E", "U+AF7F",
      "U+AF80", "U+AF81", "U+AF82", "U+AF83", "U+AF84", "U+AF85", "U+AF86",
      "U+AF87", "U+AF88", "U+AF89", "U+AF8A", "U+AF8B", "U+AF8C", "U+AF8D",
      "U+AF8E", "U+AF8F", "U+AF90", "U+AF91", "U+AF92", "U+AF93", "U+AF94",
      "U+AF95", "U+AF96", "U+AF97", "U+AF98", "U+AF99", "U+AF9A", "U+AF9B",
      "U+AF9C", "U+AF9D", "U+AF9E", "U+AF9F", "U+AFA0", "U+AFA1", "U+AFA2",
      "U+AFA3", "U+AFA4", "U+AFA5", "U+AFA6", "U+AFA7", "U+AFA8", "U+AFA9",
      "U+AFAA", "U+AFAB", "U+AFAC", "U+AFAD", "U+AFAE", "U+AFAF", "U+AFB0",
      "U+AFB1", "U+AFB2", "U+AFB3", "U+AFB4", "U+AFB5", "U+AFB6", "U+AFB7",
      "U+AFB8", "U+AFB9", "U+AFBA", "U+AFBB", "U+AFBC", "U+AFBD", "U+AFBE",
      "U+AFBF", "U+AFC0", "U+AFC1", "U+AFC2", "U+AFC3", "U+AFC4", "U+AFC5",
      "U+AFC6", "U+AFC7", "U+AFC8", "U+AFC9", "U+AFCA", "U+AFCB", "U+AFCC",
      "U+AFCD", "U+AFCE", "U+AFCF", "U+AFD0", "U+AFD1", "U+AFD2", "U+AFD3",
      "U+AFD4", "U+AFD5", "U+AFD6", "U+AFD7", "U+AFD8", "U+AFD9", "U+AFDA",
      "U+AFDB", "U+AFDC", "U+AFDD", "U+AFDE", "U+AFDF", "U+AFE0", "U+AFE1",
      "U+AFE2", "U+AFE3", "U+AFE4", "U+AFE5", "U+AFE6", "U+AFE7", "U+AFE8",
      "U+AFE9", "U+AFEA", "U+AFEB", "U+AFEC", "U+AFED", "U+AFEE", "U+AFEF",
      "U+AFF0", "U+AFF1", "U+AFF2", "U+AFF3", "U+AFF4", "U+AFF5", "U+AFF6",
      "U+AFF7", "U+AFF8", "U+AFF9", "U+AFFA", "U+AFFB", "U+AFFC", "U+AFFD",
      "U+AFFE", "U+AFFF", "U+B000", "U+B001", "U+B002", "U+B003", "U+B004",
      "U+B005", "U+B006", "U+B007", "U+B008", "U+B009", "U+B00A", "U+B00B",
      "U+B00C", "U+B00D", "U+B00E", "U+B00F", "U+B010", "U+B011", "U+B012",
      "U+B013", "U+B014", "U+B015", "U+B016", "U+B017", "U+B018", "U+B019",
      "U+B01A", "U+B01B", "U+B01C", "U+B01D", "U+B01E", "U+B01F", "U+B020",
      "U+B021", "U+B022", "U+B023", "U+B024", "U+B025", "U+B026", "U+B027",
      "U+B028", "U+B029", "U+B02A", "U+B02B", "U+B02C", "U+B02D", "U+B02E",
      "U+B02F", "U+B030", "U+B031", "U+B032", "U+B033", "U+B034", "U+B035",
      "U+B036", "U+B037", "U+B038", "U+B039", "U+B03A", "U+B03B", "U+B03C",
      "U+B03D", "U+B03E", "U+B03F", "U+B040", "U+B041", "U+B042", "U+B043",
      "U+B044", "U+B045", "U+B046", "U+B047", "U+B048", "U+B049", "U+B04A",
      "U+B04B", "U+B04C", "U+B04D", "U+B04E", "U+B04F", "U+B050", "U+B051",
      "U+B052", "U+B053", "U+B054", "U+B055", "U+B056", "U+B057", "U+B058",
      "U+B059", "U+B05A", "U+B05B", "U+B05C", "U+B05D", "U+B05E", "U+B05F",
      "U+B060", "U+B061", "U+B062", "U+B063", "U+B064", "U+B065", "U+B066",
      "U+B067", "U+B068", "U+B069", "U+B06A", "U+B06B", "U+B06C", "U+B06D",
      "U+B06E", "U+B06F", "U+B070", "U+B071", "U+B072", "U+B073", "U+B074",
      "U+B075", "U+B076", "U+B077", "U+B078", "U+B079", "U+B07A", "U+B07B",
      "U+B07C", "U+B07D", "U+B07E", "U+B07F", "U+B080", "U+B081", "U+B082",
      "U+B083", "U+B084", "U+B085", "U+B086", "U+B087", "U+B088", "U+B089",
      "U+B08A", "U+B08B", "U+B08C", "U+B08D", "U+B08E", "U+B08F", "U+B090",
      "U+B091", "U+B092", "U+B093", "U+B094", "U+B095", "U+B096", "U+B097",
      "U+B098", "U+B099", "U+B09A", "U+B09B", "U+B09C", "U+B09D", "U+B09E",
      "U+B09F", "U+B0A0", "U+B0A1", "U+B0A2", "U+B0A3", "U+B0A4", "U+B0A5",
      "U+B0A6", "U+B0A7", "U+B0A8", "U+B0A9", "U+B0AA", "U+B0AB", "U+B0AC",
      "U+B0AD", "U+B0AE", "U+B0AF", "U+B0B0", "U+B0B1", "U+B0B2", "U+B0B3",
      "U+B0B4", "U+B0B5", "U+B0B6", "U+B0B7", "U+B0B8", "U+B0B9", "U+B0BA",
      "U+B0BB", "U+B0BC", "U+B0BD", "U+B0BE", "U+B0BF", "U+B0C0", "U+B0C1",
      "U+B0C2", "U+B0C3", "U+B0C4", "U+B0C5", "U+B0C6", "U+B0C7", "U+B0C8",
      "U+B0C9", "U+B0CA", "U+B0CB", "U+B0CC", "U+B0CD", "U+B0CE", "U+B0CF",
      "U+B0D0", "U+B0D1", "U+B0D2", "U+B0D3", "U+B0D4", "U+B0D5", "U+B0D6",
      "U+B0D7", "U+B0D8", "U+B0D9", "U+B0DA", "U+B0DB", "U+B0DC", "U+B0DD",
      "U+B0DE", "U+B0DF", "U+B0E0", "U+B0E1", "U+B0E2", "U+B0E3", "U+B0E4",
      "U+B0E5", "U+B0E6", "U+B0E7", "U+B0E8", "U+B0E9", "U+B0EA", "U+B0EB",
      "U+B0EC", "U+B0ED", "U+B0EE", "U+B0EF", "U+B0F0", "U+B0F1", "U+B0F2",
      "U+B0F3", "U+B0F4", "U+B0F5", "U+B0F6", "U+B0F7", "U+B0F8", "U+B0F9",
      "U+B0FA", "U+B0FB", "U+B0FC", "U+B0FD", "U+B0FE", "U+B0FF", "U+B100",
      "U+B101", "U+B102", "U+B103", "U+B104", "U+B105", "U+B106", "U+B107",
      "U+B108", "U+B109", "U+B10A", "U+B10B", "U+B10C", "U+B10D", "U+B10E",
      "U+B10F", "U+B110", "U+B111", "U+B112", "U+B113", "U+B114", "U+B115",
      "U+B116", "U+B117", "U+B118", "U+B119", "U+B11A", "U+B11B", "U+B11C",
      "U+B11D", "U+B11E", "U+B11F", "U+B120", "U+B121", "U+B122", "U+B123",
      "U+B124", "U+B125", "U+B126", "U+B127", "U+B128", "U+B129", "U+B12A",
      "U+B12B", "U+B12C", "U+B12D", "U+B12E", "U+B12F", "U+B130", "U+B131",
      "U+B132", "U+B133", "U+B134", "U+B135", "U+B136", "U+B137", "U+B138",
      "U+B139", "U+B13A", "U+B13B", "U+B13C", "U+B13D", "U+B13E", "U+B13F",
      "U+B140", "U+B141", "U+B142", "U+B143", "U+B144", "U+B145", "U+B146",
      "U+B147", "U+B148", "U+B149", "U+B14A", "U+B14B", "U+B14C", "U+B14D",
      "U+B14E", "U+B14F", "U+B150", "U+B151", "U+B152", "U+B153", "U+B154",
      "U+B155", "U+B156", "U+B157", "U+B158", "U+B159", "U+B15A", "U+B15B",
      "U+B15C", "U+B15D", "U+B15E", "U+B15F", "U+B160", "U+B161", "U+B162",
      "U+B163", "U+B164", "U+B165", "U+B166", "U+B167", "U+B168", "U+B169",
      "U+B16A", "U+B16B", "U+B16C", "U+B16D", "U+B16E", "U+B16F", "U+B170",
      "U+B171", "U+B172", "U+B173", "U+B174", "U+B175", "U+B176", "U+B177",
      "U+B178", "U+B179", "U+B17A", "U+B17B", "U+B17C", "U+B17D", "U+B17E",
      "U+B17F", "U+B180", "U+B181", "U+B182", "U+B183", "U+B184", "U+B185",
      "U+B186", "U+B187", "U+B188", "U+B189", "U+B18A", "U+B18B", "U+B18C",
      "U+B18D", "U+B18E", "U+B18F", "U+B190", "U+B191", "U+B192", "U+B193",
      "U+B194", "U+B195", "U+B196", "U+B197", "U+B198", "U+B199", "U+B19A",
      "U+B19B", "U+B19C", "U+B19D", "U+B19E", "U+B19F", "U+B1A0", "U+B1A1",
      "U+B1A2", "U+B1A3", "U+B1A4", "U+B1A5", "U+B1A6", "U+B1A7", "U+B1A8",
      "U+B1A9", "U+B1AA", "U+B1AB", "U+B1AC", "U+B1AD", "U+B1AE", "U+B1AF",
      "U+B1B0", "U+B1B1", "U+B1B2", "U+B1B3", "U+B1B4", "U+B1B5", "U+B1B6",
      "U+B1B7", "U+B1B8", "U+B1B9", "U+B1BA", "U+B1BB", "U+B1BC", "U+B1BD",
      "U+B1BE", "U+B1BF", "U+B1C0", "U+B1C1", "U+B1C2", "U+B1C3", "U+B1C4",
      "U+B1C5", "U+B1C6", "U+B1C7", "U+B1C8", "U+B1C9", "U+B1CA", "U+B1CB",
      "U+B1CC", "U+B1CD", "U+B1CE", "U+B1CF", "U+B1D0", "U+B1D1", "U+B1D2",
      "U+B1D3", "U+B1D4", "U+B1D5", "U+B1D6", "U+B1D7", "U+B1D8", "U+B1D9",
      "U+B1DA", "U+B1DB", "U+B1DC", "U+B1DD", "U+B1DE", "U+B1DF", "U+B1E0",
      "U+B1E1", "U+B1E2", "U+B1E3", "U+B1E4", "U+B1E5", "U+B1E6", "U+B1E7",
      "U+B1E8", "U+B1E9", "U+B1EA", "U+B1EB", "U+B1EC", "U+B1ED", "U+B1EE",
      "U+B1EF", "U+B1F0", "U+B1F1", "U+B1F2", "U+B1F3", "U+B1F4", "U+B1F5",
      "U+B1F6", "U+B1F7", "U+B1F8", "U+B1F9", "U+B1FA", "U+B1FB", "U+B1FC",
      "U+B1FD", "U+B1FE", "U+B1FF", "U+B200", "U+B201", "U+B202", "U+B203",
      "U+B204", "U+B205", "U+B206", "U+B207", "U+B208", "U+B209", "U+B20A",
      "U+B20B", "U+B20C", "U+B20D", "U+B20E", "U+B20F", "U+B210", "U+B211",
      "U+B212", "U+B213", "U+B214", "U+B215", "U+B216", "U+B217", "U+B218",
      "U+B219", "U+B21A", "U+B21B", "U+B21C", "U+B21D", "U+B21E", "U+B21F",
      "U+B220", "U+B221", "U+B222", "U+B223", "U+B224", "U+B225", "U+B226",
      "U+B227", "U+B228", "U+B229", "U+B22A", "U+B22B", "U+B22C", "U+B22D",
      "U+B22E", "U+B22F", "U+B230", "U+B231", "U+B232", "U+B233", "U+B234",
      "U+B235", "U+B236", "U+B237", "U+B238", "U+B239", "U+B23A", "U+B23B",
      "U+B23C", "U+B23D", "U+B23E", "U+B23F", "U+B240", "U+B241", "U+B242",
      "U+B243", "U+B244", "U+B245", "U+B246", "U+B247", "U+B248", "U+B249",
      "U+B24A", "U+B24B", "U+B24C", "U+B24D", "U+B24E", "U+B24F", "U+B250",
      "U+B251", "U+B252", "U+B253", "U+B254", "U+B255", "U+B256", "U+B257",
      "U+B258", "U+B259", "U+B25A", "U+B25B", "U+B25C", "U+B25D", "U+B25E",
      "U+B25F", "U+B260", "U+B261", "U+B262", "U+B263", "U+B264", "U+B265",
      "U+B266", "U+B267", "U+B268", "U+B269", "U+B26A", "U+B26B", "U+B26C",
      "U+B26D", "U+B26E", "U+B26F", "U+B270", "U+B271", "U+B272", "U+B273",
      "U+B274", "U+B275", "U+B276", "U+B277", "U+B278", "U+B279", "U+B27A",
      "U+B27B", "U+B27C", "U+B27D", "U+B27E", "U+B27F", "U+B280", "U+B281",
      "U+B282", "U+B283", "U+B284", "U+B285", "U+B286", "U+B287", "U+B288",
      "U+B289", "U+B28A", "U+B28B", "U+B28C", "U+B28D", "U+B28E", "U+B28F",
      "U+B290", "U+B291", "U+B292", "U+B293", "U+B294", "U+B295", "U+B296",
      "U+B297", "U+B298", "U+B299", "U+B29A", "U+B29B", "U+B29C", "U+B29D",
      "U+B29E", "U+B29F", "U+B2A0", "U+B2A1", "U+B2A2", "U+B2A3", "U+B2A4",
      "U+B2A5", "U+B2A6", "U+B2A7", "U+B2A8", "U+B2A9", "U+B2AA", "U+B2AB",
      "U+B2AC", "U+B2AD", "U+B2AE", "U+B2AF", "U+B2B0", "U+B2B1", "U+B2B2",
      "U+B2B3", "U+B2B4", "U+B2B5", "U+B2B6", "U+B2B7", "U+B2B8", "U+B2B9",
      "U+B2BA", "U+B2BB", "U+B2BC", "U+B2BD", "U+B2BE", "U+B2BF", "U+B2C0",
      "U+B2C1", "U+B2C2", "U+B2C3", "U+B2C4", "U+B2C5", "U+B2C6", "U+B2C7",
      "U+B2C8", "U+B2C9", "U+B2CA", "U+B2CB", "U+B2CC", "U+B2CD", "U+B2CE",
      "U+B2CF", "U+B2D0", "U+B2D1", "U+B2D2", "U+B2D3", "U+B2D4", "U+B2D5",
      "U+B2D6", "U+B2D7", "U+B2D8", "U+B2D9", "U+B2DA", "U+B2DB", "U+B2DC",
      "U+B2DD", "U+B2DE", "U+B2DF", "U+B2E0", "U+B2E1", "U+B2E2", "U+B2E3",
      "U+B2E4", "U+B2E5", "U+B2E6", "U+B2E7", "U+B2E8", "U+B2E9", "U+B2EA",
      "U+B2EB", "U+B2EC", "U+B2ED", "U+B2EE", "U+B2EF", "U+B2F0", "U+B2F1",
      "U+B2F2", "U+B2F3", "U+B2F4", "U+B2F5", "U+B2F6", "U+B2F7", "U+B2F8",
      "U+B2F9", "U+B2FA", "U+B2FB", "U+B2FC", "U+B2FD", "U+B2FE", "U+B2FF",
      "U+B300", "U+B301", "U+B302", "U+B303", "U+B304", "U+B305", "U+B306",
      "U+B307", "U+B308", "U+B309", "U+B30A", "U+B30B", "U+B30C", "U+B30D",
      "U+B30E", "U+B30F", "U+B310", "U+B311", "U+B312", "U+B313", "U+B314",
      "U+B315", "U+B316", "U+B317", "U+B318", "U+B319", "U+B31A", "U+B31B",
      "U+B31C", "U+B31D", "U+B31E", "U+B31F", "U+B320", "U+B321", "U+B322",
      "U+B323", "U+B324", "U+B325", "U+B326", "U+B327", "U+B328", "U+B329",
      "U+B32A", "U+B32B", "U+B32C", "U+B32D", "U+B32E", "U+B32F", "U+B330",
      "U+B331", "U+B332", "U+B333", "U+B334", "U+B335", "U+B336", "U+B337",
      "U+B338", "U+B339", "U+B33A", "U+B33B", "U+B33C", "U+B33D", "U+B33E",
      "U+B33F", "U+B340", "U+B341", "U+B342", "U+B343", "U+B344", "U+B345",
      "U+B346", "U+B347", "U+B348", "U+B349", "U+B34A", "U+B34B", "U+B34C",
      "U+B34D", "U+B34E", "U+B34F", "U+B350", "U+B351", "U+B352", "U+B353",
      "U+B354", "U+B355", "U+B356", "U+B357", "U+B358", "U+B359", "U+B35A",
      "U+B35B", "U+B35C", "U+B35D", "U+B35E", "U+B35F", "U+B360", "U+B361",
      "U+B362", "U+B363", "U+B364", "U+B365", "U+B366", "U+B367", "U+B368",
      "U+B369", "U+B36A", "U+B36B", "U+B36C", "U+B36D", "U+B36E", "U+B36F",
      "U+B370", "U+B371", "U+B372", "U+B373", "U+B374", "U+B375", "U+B376",
      "U+B377", "U+B378", "U+B379", "U+B37A", "U+B37B", "U+B37C", "U+B37D",
      "U+B37E", "U+B37F", "U+B380", "U+B381", "U+B382", "U+B383", "U+B384",
      "U+B385", "U+B386", "U+B387", "U+B388", "U+B389", "U+B38A", "U+B38B",
      "U+B38C", "U+B38D", "U+B38E", "U+B38F", "U+B390", "U+B391", "U+B392",
      "U+B393", "U+B394", "U+B395", "U+B396", "U+B397", "U+B398", "U+B399",
      "U+B39A", "U+B39B", "U+B39C", "U+B39D", "U+B39E", "U+B39F", "U+B3A0",
      "U+B3A1", "U+B3A2", "U+B3A3", "U+B3A4", "U+B3A5", "U+B3A6", "U+B3A7",
      "U+B3A8", "U+B3A9", "U+B3AA", "U+B3AB", "U+B3AC", "U+B3AD", "U+B3AE",
      "U+B3AF", "U+B3B0", "U+B3B1", "U+B3B2", "U+B3B3", "U+B3B4", "U+B3B5",
      "U+B3B6", "U+B3B7", "U+B3B8", "U+B3B9", "U+B3BA", "U+B3BB", "U+B3BC",
      "U+B3BD", "U+B3BE", "U+B3BF", "U+B3C0", "U+B3C1", "U+B3C2", "U+B3C3",
      "U+B3C4", "U+B3C5", "U+B3C6", "U+B3C7", "U+B3C8", "U+B3C9", "U+B3CA",
      "U+B3CB", "U+B3CC", "U+B3CD", "U+B3CE", "U+B3CF", "U+B3D0", "U+B3D1",
      "U+B3D2", "U+B3D3", "U+B3D4", "U+B3D5", "U+B3D6", "U+B3D7", "U+B3D8",
      "U+B3D9", "U+B3DA", "U+B3DB", "U+B3DC", "U+B3DD", "U+B3DE", "U+B3DF",
      "U+B3E0", "U+B3E1", "U+B3E2", "U+B3E3", "U+B3E4", "U+B3E5", "U+B3E6",
      "U+B3E7", "U+B3E8", "U+B3E9", "U+B3EA", "U+B3EB", "U+B3EC", "U+B3ED",
      "U+B3EE", "U+B3EF", "U+B3F0", "U+B3F1", "U+B3F2", "U+B3F3", "U+B3F4",
      "U+B3F5", "U+B3F6", "U+B3F7", "U+B3F8", "U+B3F9", "U+B3FA", "U+B3FB",
      "U+B3FC", "U+B3FD", "U+B3FE", "U+B3FF", "U+B400", "U+B401", "U+B402",
      "U+B403", "U+B404", "U+B405", "U+B406", "U+B407", "U+B408", "U+B409",
      "U+B40A", "U+B40B", "U+B40C", "U+B40D", "U+B40E", "U+B40F", "U+B410",
      "U+B411", "U+B412", "U+B413", "U+B414", "U+B415", "U+B416", "U+B417",
      "U+B418", "U+B419", "U+B41A", "U+B41B", "U+B41C", "U+B41D", "U+B41E",
      "U+B41F", "U+B420", "U+B421", "U+B422", "U+B423", "U+B424", "U+B425",
      "U+B426", "U+B427", "U+B428", "U+B429", "U+B42A", "U+B42B", "U+B42C",
      "U+B42D", "U+B42E", "U+B42F", "U+B430", "U+B431", "U+B432", "U+B433",
      "U+B434", "U+B435", "U+B436", "U+B437", "U+B438", "U+B439", "U+B43A",
      "U+B43B", "U+B43C", "U+B43D", "U+B43E", "U+B43F", "U+B440", "U+B441",
      "U+B442", "U+B443", "U+B444", "U+B445", "U+B446", "U+B447", "U+B448",
      "U+B449", "U+B44A", "U+B44B", "U+B44C", "U+B44D", "U+B44E", "U+B44F",
      "U+B450", "U+B451", "U+B452", "U+B453", "U+B454", "U+B455", "U+B456",
      "U+B457", "U+B458", "U+B459", "U+B45A", "U+B45B", "U+B45C", "U+B45D",
      "U+B45E", "U+B45F", "U+B460", "U+B461", "U+B462", "U+B463", "U+B464",
      "U+B465", "U+B466", "U+B467", "U+B468", "U+B469", "U+B46A", "U+B46B",
      "U+B46C", "U+B46D", "U+B46E", "U+B46F", "U+B470", "U+B471", "U+B472",
      "U+B473", "U+B474", "U+B475", "U+B476", "U+B477", "U+B478", "U+B479",
      "U+B47A", "U+B47B", "U+B47C", "U+B47D", "U+B47E", "U+B47F", "U+B480",
      "U+B481", "U+B482", "U+B483", "U+B484", "U+B485", "U+B486", "U+B487",
      "U+B488", "U+B489", "U+B48A", "U+B48B", "U+B48C", "U+B48D", "U+B48E",
      "U+B48F", "U+B490", "U+B491", "U+B492", "U+B493", "U+B494", "U+B495",
      "U+B496", "U+B497", "U+B498", "U+B499", "U+B49A", "U+B49B", "U+B49C",
      "U+B49D", "U+B49E", "U+B49F", "U+B4A0", "U+B4A1", "U+B4A2", "U+B4A3",
      "U+B4A4", "U+B4A5", "U+B4A6", "U+B4A7", "U+B4A8", "U+B4A9", "U+B4AA",
      "U+B4AB", "U+B4AC", "U+B4AD", "U+B4AE", "U+B4AF", "U+B4B0", "U+B4B1",
      "U+B4B2", "U+B4B3", "U+B4B4", "U+B4B5", "U+B4B6", "U+B4B7", "U+B4B8",
      "U+B4B9", "U+B4BA", "U+B4BB", "U+B4BC", "U+B4BD", "U+B4BE", "U+B4BF",
      "U+B4C0", "U+B4C1", "U+B4C2", "U+B4C3", "U+B4C4", "U+B4C5", "U+B4C6",
      "U+B4C7", "U+B4C8", "U+B4C9", "U+B4CA", "U+B4CB", "U+B4CC", "U+B4CD",
      "U+B4CE", "U+B4CF", "U+B4D0", "U+B4D1", "U+B4D2", "U+B4D3", "U+B4D4",
      "U+B4D5", "U+B4D6", "U+B4D7", "U+B4D8", "U+B4D9", "U+B4DA", "U+B4DB",
      "U+B4DC", "U+B4DD", "U+B4DE", "U+B4DF", "U+B4E0", "U+B4E1", "U+B4E2",
      "U+B4E3", "U+B4E4", "U+B4E5", "U+B4E6", "U+B4E7", "U+B4E8", "U+B4E9",
      "U+B4EA", "U+B4EB", "U+B4EC", "U+B4ED", "U+B4EE", "U+B4EF", "U+B4F0",
      "U+B4F1", "U+B4F2", "U+B4F3", "U+B4F4", "U+B4F5", "U+B4F6", "U+B4F7",
      "U+B4F8", "U+B4F9", "U+B4FA", "U+B4FB", "U+B4FC", "U+B4FD", "U+B4FE",
      "U+B4FF", "U+B500", "U+B501", "U+B502", "U+B503", "U+B504", "U+B505",
      "U+B506", "U+B507", "U+B508", "U+B509", "U+B50A", "U+B50B", "U+B50C",
      "U+B50D", "U+B50E", "U+B50F", "U+B510", "U+B511", "U+B512", "U+B513",
      "U+B514", "U+B515", "U+B516", "U+B517", "U+B518", "U+B519", "U+B51A",
      "U+B51B", "U+B51C", "U+B51D", "U+B51E", "U+B51F", "U+B520", "U+B521",
      "U+B522", "U+B523", "U+B524", "U+B525", "U+B526", "U+B527", "U+B528",
      "U+B529", "U+B52A", "U+B52B", "U+B52C", "U+B52D", "U+B52E", "U+B52F",
      "U+B530", "U+B531", "U+B532", "U+B533", "U+B534", "U+B535", "U+B536",
      "U+B537", "U+B538", "U+B539", "U+B53A", "U+B53B", "U+B53C", "U+B53D",
      "U+B53E", "U+B53F", "U+B540", "U+B541", "U+B542", "U+B543", "U+B544",
      "U+B545", "U+B546", "U+B547", "U+B548", "U+B549", "U+B54A", "U+B54B",
      "U+B54C", "U+B54D", "U+B54E", "U+B54F", "U+B550", "U+B551", "U+B552",
      "U+B553", "U+B554", "U+B555", "U+B556", "U+B557", "U+B558", "U+B559",
      "U+B55A", "U+B55B", "U+B55C", "U+B55D", "U+B55E", "U+B55F", "U+B560",
      "U+B561", "U+B562", "U+B563", "U+B564", "U+B565", "U+B566", "U+B567",
      "U+B568", "U+B569", "U+B56A", "U+B56B", "U+B56C", "U+B56D", "U+B56E",
      "U+B56F", "U+B570", "U+B571", "U+B572", "U+B573", "U+B574", "U+B575",
      "U+B576", "U+B577", "U+B578", "U+B579", "U+B57A", "U+B57B", "U+B57C",
      "U+B57D", "U+B57E", "U+B57F", "U+B580", "U+B581", "U+B582", "U+B583",
      "U+B584", "U+B585", "U+B586", "U+B587", "U+B588", "U+B589", "U+B58A",
      "U+B58B", "U+B58C", "U+B58D", "U+B58E", "U+B58F", "U+B590", "U+B591",
      "U+B592", "U+B593", "U+B594", "U+B595", "U+B596", "U+B597", "U+B598",
      "U+B599", "U+B59A", "U+B59B", "U+B59C", "U+B59D", "U+B59E", "U+B59F",
      "U+B5A0", "U+B5A1", "U+B5A2", "U+B5A3", "U+B5A4", "U+B5A5", "U+B5A6",
      "U+B5A7", "U+B5A8", "U+B5A9", "U+B5AA", "U+B5AB", "U+B5AC", "U+B5AD",
      "U+B5AE", "U+B5AF", "U+B5B0", "U+B5B1", "U+B5B2", "U+B5B3", "U+B5B4",
      "U+B5B5", "U+B5B6", "U+B5B7", "U+B5B8", "U+B5B9", "U+B5BA", "U+B5BB",
      "U+B5BC", "U+B5BD", "U+B5BE", "U+B5BF", "U+B5C0", "U+B5C1", "U+B5C2",
      "U+B5C3", "U+B5C4", "U+B5C5", "U+B5C6", "U+B5C7", "U+B5C8", "U+B5C9",
      "U+B5CA", "U+B5CB", "U+B5CC", "U+B5CD", "U+B5CE", "U+B5CF", "U+B5D0",
      "U+B5D1", "U+B5D2", "U+B5D3", "U+B5D4", "U+B5D5", "U+B5D6", "U+B5D7",
      "U+B5D8", "U+B5D9", "U+B5DA", "U+B5DB", "U+B5DC", "U+B5DD", "U+B5DE",
      "U+B5DF", "U+B5E0", "U+B5E1", "U+B5E2", "U+B5E3", "U+B5E4", "U+B5E5",
      "U+B5E6", "U+B5E7", "U+B5E8", "U+B5E9", "U+B5EA", "U+B5EB", "U+B5EC",
      "U+B5ED", "U+B5EE", "U+B5EF", "U+B5F0", "U+B5F1", "U+B5F2", "U+B5F3",
      "U+B5F4", "U+B5F5", "U+B5F6", "U+B5F7", "U+B5F8", "U+B5F9", "U+B5FA",
      "U+B5FB", "U+B5FC", "U+B5FD", "U+B5FE", "U+B5FF", "U+B600", "U+B601",
      "U+B602", "U+B603", "U+B604", "U+B605", "U+B606", "U+B607", "U+B608",
      "U+B609", "U+B60A", "U+B60B", "U+B60C", "U+B60D", "U+B60E", "U+B60F",
      "U+B610", "U+B611", "U+B612", "U+B613", "U+B614", "U+B615", "U+B616",
      "U+B617", "U+B618", "U+B619", "U+B61A", "U+B61B", "U+B61C", "U+B61D",
      "U+B61E", "U+B61F", "U+B620", "U+B621", "U+B622", "U+B623", "U+B624",
      "U+B625", "U+B626", "U+B627", "U+B628", "U+B629", "U+B62A", "U+B62B",
      "U+B62C", "U+B62D", "U+B62E", "U+B62F", "U+B630", "U+B631", "U+B632",
      "U+B633", "U+B634", "U+B635", "U+B636", "U+B637", "U+B638", "U+B639",
      "U+B63A", "U+B63B", "U+B63C", "U+B63D", "U+B63E", "U+B63F", "U+B640",
      "U+B641", "U+B642", "U+B643", "U+B644", "U+B645", "U+B646", "U+B647",
      "U+B648", "U+B649", "U+B64A", "U+B64B", "U+B64C", "U+B64D", "U+B64E",
      "U+B64F", "U+B650", "U+B651", "U+B652", "U+B653", "U+B654", "U+B655",
      "U+B656", "U+B657", "U+B658", "U+B659", "U+B65A", "U+B65B", "U+B65C",
      "U+B65D", "U+B65E", "U+B65F", "U+B660", "U+B661", "U+B662", "U+B663",
      "U+B664", "U+B665", "U+B666", "U+B667", "U+B668", "U+B669", "U+B66A",
      "U+B66B", "U+B66C", "U+B66D", "U+B66E", "U+B66F", "U+B670", "U+B671",
      "U+B672", "U+B673", "U+B674", "U+B675", "U+B676", "U+B677", "U+B678",
      "U+B679", "U+B67A", "U+B67B", "U+B67C", "U+B67D", "U+B67E", "U+B67F",
      "U+B680", "U+B681", "U+B682", "U+B683", "U+B684", "U+B685", "U+B686",
      "U+B687", "U+B688", "U+B689", "U+B68A", "U+B68B", "U+B68C", "U+B68D",
      "U+B68E", "U+B68F", "U+B690", "U+B691", "U+B692", "U+B693", "U+B694",
      "U+B695", "U+B696", "U+B697", "U+B698", "U+B699", "U+B69A", "U+B69B",
      "U+B69C", "U+B69D", "U+B69E", "U+B69F", "U+B6A0", "U+B6A1", "U+B6A2",
      "U+B6A3", "U+B6A4", "U+B6A5", "U+B6A6", "U+B6A7", "U+B6A8", "U+B6A9",
      "U+B6AA", "U+B6AB", "U+B6AC", "U+B6AD", "U+B6AE", "U+B6AF", "U+B6B0",
      "U+B6B1", "U+B6B2", "U+B6B3", "U+B6B4", "U+B6B5", "U+B6B6", "U+B6B7",
      "U+B6B8", "U+B6B9", "U+B6BA", "U+B6BB", "U+B6BC", "U+B6BD", "U+B6BE",
      "U+B6BF", "U+B6C0", "U+B6C1", "U+B6C2", "U+B6C3", "U+B6C4", "U+B6C5",
      "U+B6C6", "U+B6C7", "U+B6C8", "U+B6C9", "U+B6CA", "U+B6CB", "U+B6CC",
      "U+B6CD", "U+B6CE", "U+B6CF", "U+B6D0", "U+B6D1", "U+B6D2", "U+B6D3",
      "U+B6D4", "U+B6D5", "U+B6D6", "U+B6D7", "U+B6D8", "U+B6D9", "U+B6DA",
      "U+B6DB", "U+B6DC", "U+B6DD", "U+B6DE", "U+B6DF", "U+B6E0", "U+B6E1",
      "U+B6E2", "U+B6E3", "U+B6E4", "U+B6E5", "U+B6E6", "U+B6E7", "U+B6E8",
      "U+B6E9", "U+B6EA", "U+B6EB", "U+B6EC", "U+B6ED", "U+B6EE", "U+B6EF",
      "U+B6F0", "U+B6F1", "U+B6F2", "U+B6F3", "U+B6F4", "U+B6F5", "U+B6F6",
      "U+B6F7", "U+B6F8", "U+B6F9", "U+B6FA", "U+B6FB", "U+B6FC", "U+B6FD",
      "U+B6FE", "U+B6FF", "U+B700", "U+B701", "U+B702", "U+B703", "U+B704",
      "U+B705", "U+B706", "U+B707", "U+B708", "U+B709", "U+B70A", "U+B70B",
      "U+B70C", "U+B70D", "U+B70E", "U+B70F", "U+B710", "U+B711", "U+B712",
      "U+B713", "U+B714", "U+B715", "U+B716", "U+B717", "U+B718", "U+B719",
      "U+B71A", "U+B71B", "U+B71C", "U+B71D", "U+B71E", "U+B71F", "U+B720",
      "U+B721", "U+B722", "U+B723", "U+B724", "U+B725", "U+B726", "U+B727",
      "U+B728", "U+B729", "U+B72A", "U+B72B", "U+B72C", "U+B72D", "U+B72E",
      "U+B72F", "U+B730", "U+B731", "U+B732", "U+B733", "U+B734", "U+B735",
      "U+B736", "U+B737", "U+B738", "U+B739", "U+B73A", "U+B73B", "U+B73C",
      "U+B73D", "U+B73E", "U+B73F", "U+B740", "U+B741", "U+B742", "U+B743",
      "U+B744", "U+B745", "U+B746", "U+B747", "U+B748", "U+B749", "U+B74A",
      "U+B74B", "U+B74C", "U+B74D", "U+B74E", "U+B74F", "U+B750", "U+B751",
      "U+B752", "U+B753", "U+B754", "U+B755", "U+B756", "U+B757", "U+B758",
      "U+B759", "U+B75A", "U+B75B", "U+B75C", "U+B75D", "U+B75E", "U+B75F",
      "U+B760", "U+B761", "U+B762", "U+B763", "U+B764", "U+B765", "U+B766",
      "U+B767", "U+B768", "U+B769", "U+B76A", "U+B76B", "U+B76C", "U+B76D",
      "U+B76E", "U+B76F", "U+B770", "U+B771", "U+B772", "U+B773", "U+B774",
      "U+B775", "U+B776", "U+B777", "U+B778", "U+B779", "U+B77A", "U+B77B",
      "U+B77C", "U+B77D", "U+B77E", "U+B77F", "U+B780", "U+B781", "U+B782",
      "U+B783", "U+B784", "U+B785", "U+B786", "U+B787", "U+B788", "U+B789",
      "U+B78A", "U+B78B", "U+B78C", "U+B78D", "U+B78E", "U+B78F", "U+B790",
      "U+B791", "U+B792", "U+B793", "U+B794", "U+B795", "U+B796", "U+B797",
      "U+B798", "U+B799", "U+B79A", "U+B79B", "U+B79C", "U+B79D", "U+B79E",
      "U+B79F", "U+B7A0", "U+B7A1", "U+B7A2", "U+B7A3", "U+B7A4", "U+B7A5",
      "U+B7A6", "U+B7A7", "U+B7A8", "U+B7A9", "U+B7AA", "U+B7AB", "U+B7AC",
      "U+B7AD", "U+B7AE", "U+B7AF", "U+B7B0", "U+B7B1", "U+B7B2", "U+B7B3",
      "U+B7B4", "U+B7B5", "U+B7B6", "U+B7B7", "U+B7B8", "U+B7B9", "U+B7BA",
      "U+B7BB", "U+B7BC", "U+B7BD", "U+B7BE", "U+B7BF", "U+B7C0", "U+B7C1",
      "U+B7C2", "U+B7C3", "U+B7C4", "U+B7C5", "U+B7C6", "U+B7C7", "U+B7C8",
      "U+B7C9", "U+B7CA", "U+B7CB", "U+B7CC", "U+B7CD", "U+B7CE", "U+B7CF",
      "U+B7D0", "U+B7D1", "U+B7D2", "U+B7D3", "U+B7D4", "U+B7D5", "U+B7D6",
      "U+B7D7", "U+B7D8", "U+B7D9", "U+B7DA", "U+B7DB", "U+B7DC", "U+B7DD",
      "U+B7DE", "U+B7DF", "U+B7E0", "U+B7E1", "U+B7E2", "U+B7E3", "U+B7E4",
      "U+B7E5", "U+B7E6", "U+B7E7", "U+B7E8", "U+B7E9", "U+B7EA", "U+B7EB",
      "U+B7EC", "U+B7ED", "U+B7EE", "U+B7EF", "U+B7F0", "U+B7F1", "U+B7F2",
      "U+B7F3", "U+B7F4", "U+B7F5", "U+B7F6", "U+B7F7", "U+B7F8", "U+B7F9",
      "U+B7FA", "U+B7FB", "U+B7FC", "U+B7FD", "U+B7FE", "U+B7FF", "U+B800",
      "U+B801", "U+B802", "U+B803", "U+B804", "U+B805", "U+B806", "U+B807",
      "U+B808", "U+B809", "U+B80A", "U+B80B", "U+B80C", "U+B80D", "U+B80E",
      "U+B80F", "U+B810", "U+B811", "U+B812", "U+B813", "U+B814", "U+B815",
      "U+B816", "U+B817", "U+B818", "U+B819", "U+B81A", "U+B81B", "U+B81C",
      "U+B81D", "U+B81E", "U+B81F", "U+B820", "U+B821", "U+B822", "U+B823",
      "U+B824", "U+B825", "U+B826", "U+B827", "U+B828", "U+B829", "U+B82A",
      "U+B82B", "U+B82C", "U+B82D", "U+B82E", "U+B82F", "U+B830", "U+B831",
      "U+B832", "U+B833", "U+B834", "U+B835", "U+B836", "U+B837", "U+B838",
      "U+B839", "U+B83A", "U+B83B", "U+B83C", "U+B83D", "U+B83E", "U+B83F",
      "U+B840", "U+B841", "U+B842", "U+B843", "U+B844", "U+B845", "U+B846",
      "U+B847", "U+B848", "U+B849", "U+B84A", "U+B84B", "U+B84C", "U+B84D",
      "U+B84E", "U+B84F", "U+B850", "U+B851", "U+B852", "U+B853", "U+B854",
      "U+B855", "U+B856", "U+B857", "U+B858", "U+B859", "U+B85A", "U+B85B",
      "U+B85C", "U+B85D", "U+B85E", "U+B85F", "U+B860", "U+B861", "U+B862",
      "U+B863", "U+B864", "U+B865", "U+B866", "U+B867", "U+B868", "U+B869",
      "U+B86A", "U+B86B", "U+B86C", "U+B86D", "U+B86E", "U+B86F", "U+B870",
      "U+B871", "U+B872", "U+B873", "U+B874", "U+B875", "U+B876", "U+B877",
      "U+B878", "U+B879", "U+B87A", "U+B87B", "U+B87C", "U+B87D", "U+B87E",
      "U+B87F", "U+B880", "U+B881", "U+B882", "U+B883", "U+B884", "U+B885",
      "U+B886", "U+B887", "U+B888", "U+B889", "U+B88A", "U+B88B", "U+B88C",
      "U+B88D", "U+B88E", "U+B88F", "U+B890", "U+B891", "U+B892", "U+B893",
      "U+B894", "U+B895", "U+B896", "U+B897", "U+B898", "U+B899", "U+B89A",
      "U+B89B", "U+B89C", "U+B89D", "U+B89E", "U+B89F", "U+B8A0", "U+B8A1",
      "U+B8A2", "U+B8A3", "U+B8A4", "U+B8A5", "U+B8A6", "U+B8A7", "U+B8A8",
      "U+B8A9", "U+B8AA", "U+B8AB", "U+B8AC", "U+B8AD", "U+B8AE", "U+B8AF",
      "U+B8B0", "U+B8B1", "U+B8B2", "U+B8B3", "U+B8B4", "U+B8B5", "U+B8B6",
      "U+B8B7", "U+B8B8", "U+B8B9", "U+B8BA", "U+B8BB", "U+B8BC", "U+B8BD",
      "U+B8BE", "U+B8BF", "U+B8C0", "U+B8C1", "U+B8C2", "U+B8C3", "U+B8C4",
      "U+B8C5", "U+B8C6", "U+B8C7", "U+B8C8", "U+B8C9", "U+B8CA", "U+B8CB",
      "U+B8CC", "U+B8CD", "U+B8CE", "U+B8CF", "U+B8D0", "U+B8D1", "U+B8D2",
      "U+B8D3", "U+B8D4", "U+B8D5", "U+B8D6", "U+B8D7", "U+B8D8", "U+B8D9",
      "U+B8DA", "U+B8DB", "U+B8DC", "U+B8DD", "U+B8DE", "U+B8DF", "U+B8E0",
      "U+B8E1", "U+B8E2", "U+B8E3", "U+B8E4", "U+B8E5", "U+B8E6", "U+B8E7",
      "U+B8E8", "U+B8E9", "U+B8EA", "U+B8EB", "U+B8EC", "U+B8ED", "U+B8EE",
      "U+B8EF", "U+B8F0", "U+B8F1", "U+B8F2", "U+B8F3", "U+B8F4", "U+B8F5",
      "U+B8F6", "U+B8F7", "U+B8F8", "U+B8F9", "U+B8FA", "U+B8FB", "U+B8FC",
      "U+B8FD", "U+B8FE", "U+B8FF", "U+B900", "U+B901", "U+B902", "U+B903",
      "U+B904", "U+B905", "U+B906", "U+B907", "U+B908", "U+B909", "U+B90A",
      "U+B90B", "U+B90C", "U+B90D", "U+B90E", "U+B90F", "U+B910", "U+B911",
      "U+B912", "U+B913", "U+B914", "U+B915", "U+B916", "U+B917", "U+B918",
      "U+B919", "U+B91A", "U+B91B", "U+B91C", "U+B91D", "U+B91E", "U+B91F",
      "U+B920", "U+B921", "U+B922", "U+B923", "U+B924", "U+B925", "U+B926",
      "U+B927", "U+B928", "U+B929", "U+B92A", "U+B92B", "U+B92C", "U+B92D",
      "U+B92E", "U+B92F", "U+B930", "U+B931", "U+B932", "U+B933", "U+B934",
      "U+B935", "U+B936", "U+B937", "U+B938", "U+B939", "U+B93A", "U+B93B",
      "U+B93C", "U+B93D", "U+B93E", "U+B93F", "U+B940", "U+B941", "U+B942",
      "U+B943", "U+B944", "U+B945", "U+B946", "U+B947", "U+B948", "U+B949",
      "U+B94A", "U+B94B", "U+B94C", "U+B94D", "U+B94E", "U+B94F", "U+B950",
      "U+B951", "U+B952", "U+B953", "U+B954", "U+B955", "U+B956", "U+B957",
      "U+B958", "U+B959", "U+B95A", "U+B95B", "U+B95C", "U+B95D", "U+B95E",
      "U+B95F", "U+B960", "U+B961", "U+B962", "U+B963", "U+B964", "U+B965",
      "U+B966", "U+B967", "U+B968", "U+B969", "U+B96A", "U+B96B", "U+B96C",
      "U+B96D", "U+B96E", "U+B96F", "U+B970", "U+B971", "U+B972", "U+B973",
      "U+B974", "U+B975", "U+B976", "U+B977", "U+B978", "U+B979", "U+B97A",
      "U+B97B", "U+B97C", "U+B97D", "U+B97E", "U+B97F", "U+B980", "U+B981",
      "U+B982", "U+B983", "U+B984", "U+B985", "U+B986", "U+B987", "U+B988",
      "U+B989", "U+B98A", "U+B98B", "U+B98C", "U+B98D", "U+B98E", "U+B98F",
      "U+B990", "U+B991", "U+B992", "U+B993", "U+B994", "U+B995", "U+B996",
      "U+B997", "U+B998", "U+B999", "U+B99A", "U+B99B", "U+B99C", "U+B99D",
      "U+B99E", "U+B99F", "U+B9A0", "U+B9A1", "U+B9A2", "U+B9A3", "U+B9A4",
      "U+B9A5", "U+B9A6", "U+B9A7", "U+B9A8", "U+B9A9", "U+B9AA", "U+B9AB",
      "U+B9AC", "U+B9AD", "U+B9AE", "U+B9AF", "U+B9B0", "U+B9B1", "U+B9B2",
      "U+B9B3", "U+B9B4", "U+B9B5", "U+B9B6", "U+B9B7", "U+B9B8", "U+B9B9",
      "U+B9BA", "U+B9BB", "U+B9BC", "U+B9BD", "U+B9BE", "U+B9BF", "U+B9C0",
      "U+B9C1", "U+B9C2", "U+B9C3", "U+B9C4", "U+B9C5", "U+B9C6", "U+B9C7",
      "U+B9C8", "U+B9C9", "U+B9CA", "U+B9CB", "U+B9CC", "U+B9CD", "U+B9CE",
      "U+B9CF", "U+B9D0", "U+B9D1", "U+B9D2", "U+B9D3", "U+B9D4", "U+B9D5",
      "U+B9D6", "U+B9D7", "U+B9D8", "U+B9D9", "U+B9DA", "U+B9DB", "U+B9DC",
      "U+B9DD", "U+B9DE", "U+B9DF", "U+B9E0", "U+B9E1", "U+B9E2", "U+B9E3",
      "U+B9E4", "U+B9E5", "U+B9E6", "U+B9E7", "U+B9E8", "U+B9E9", "U+B9EA",
      "U+B9EB", "U+B9EC", "U+B9ED", "U+B9EE", "U+B9EF", "U+B9F0", "U+B9F1",
      "U+B9F2", "U+B9F3", "U+B9F4", "U+B9F5", "U+B9F6", "U+B9F7", "U+B9F8",
      "U+B9F9", "U+B9FA", "U+B9FB", "U+B9FC", "U+B9FD", "U+B9FE", "U+B9FF",
      "U+BA00", "U+BA01", "U+BA02", "U+BA03", "U+BA04", "U+BA05", "U+BA06",
      "U+BA07", "U+BA08", "U+BA09", "U+BA0A", "U+BA0B", "U+BA0C", "U+BA0D",
      "U+BA0E", "U+BA0F", "U+BA10", "U+BA11", "U+BA12", "U+BA13", "U+BA14",
      "U+BA15", "U+BA16", "U+BA17", "U+BA18", "U+BA19", "U+BA1A", "U+BA1B",
      "U+BA1C", "U+BA1D", "U+BA1E", "U+BA1F", "U+BA20", "U+BA21", "U+BA22",
      "U+BA23", "U+BA24", "U+BA25", "U+BA26", "U+BA27", "U+BA28", "U+BA29",
      "U+BA2A", "U+BA2B", "U+BA2C", "U+BA2D", "U+BA2E", "U+BA2F", "U+BA30",
      "U+BA31", "U+BA32", "U+BA33", "U+BA34", "U+BA35", "U+BA36", "U+BA37",
      "U+BA38", "U+BA39", "U+BA3A", "U+BA3B", "U+BA3C", "U+BA3D", "U+BA3E",
      "U+BA3F", "U+BA40", "U+BA41", "U+BA42", "U+BA43", "U+BA44", "U+BA45",
      "U+BA46", "U+BA47", "U+BA48", "U+BA49", "U+BA4A", "U+BA4B", "U+BA4C",
      "U+BA4D", "U+BA4E", "U+BA4F", "U+BA50", "U+BA51", "U+BA52", "U+BA53",
      "U+BA54", "U+BA55", "U+BA56", "U+BA57", "U+BA58", "U+BA59", "U+BA5A",
      "U+BA5B", "U+BA5C", "U+BA5D", "U+BA5E", "U+BA5F", "U+BA60", "U+BA61",
      "U+BA62", "U+BA63", "U+BA64", "U+BA65", "U+BA66", "U+BA67", "U+BA68",
      "U+BA69", "U+BA6A", "U+BA6B", "U+BA6C", "U+BA6D", "U+BA6E", "U+BA6F",
      "U+BA70", "U+BA71", "U+BA72", "U+BA73", "U+BA74", "U+BA75", "U+BA76",
      "U+BA77", "U+BA78", "U+BA79", "U+BA7A", "U+BA7B", "U+BA7C", "U+BA7D",
      "U+BA7E", "U+BA7F", "U+BA80", "U+BA81", "U+BA82", "U+BA83", "U+BA84",
      "U+BA85", "U+BA86", "U+BA87", "U+BA88", "U+BA89", "U+BA8A", "U+BA8B",
      "U+BA8C", "U+BA8D", "U+BA8E", "U+BA8F", "U+BA90", "U+BA91", "U+BA92",
      "U+BA93", "U+BA94", "U+BA95", "U+BA96", "U+BA97", "U+BA98", "U+BA99",
      "U+BA9A", "U+BA9B", "U+BA9C", "U+BA9D", "U+BA9E", "U+BA9F", "U+BAA0",
      "U+BAA1", "U+BAA2", "U+BAA3", "U+BAA4", "U+BAA5", "U+BAA6", "U+BAA7",
      "U+BAA8", "U+BAA9", "U+BAAA", "U+BAAB", "U+BAAC", "U+BAAD", "U+BAAE",
      "U+BAAF", "U+BAB0", "U+BAB1", "U+BAB2", "U+BAB3", "U+BAB4", "U+BAB5",
      "U+BAB6", "U+BAB7", "U+BAB8", "U+BAB9", "U+BABA", "U+BABB", "U+BABC",
      "U+BABD", "U+BABE", "U+BABF", "U+BAC0", "U+BAC1", "U+BAC2", "U+BAC3",
      "U+BAC4", "U+BAC5", "U+BAC6", "U+BAC7", "U+BAC8", "U+BAC9", "U+BACA",
      "U+BACB", "U+BACC", "U+BACD", "U+BACE", "U+BACF", "U+BAD0", "U+BAD1",
      "U+BAD2", "U+BAD3", "U+BAD4", "U+BAD5", "U+BAD6", "U+BAD7", "U+BAD8",
      "U+BAD9", "U+BADA", "U+BADB", "U+BADC", "U+BADD", "U+BADE", "U+BADF",
      "U+BAE0", "U+BAE1", "U+BAE2", "U+BAE3", "U+BAE4", "U+BAE5", "U+BAE6",
      "U+BAE7", "U+BAE8", "U+BAE9", "U+BAEA", "U+BAEB", "U+BAEC", "U+BAED",
      "U+BAEE", "U+BAEF", "U+BAF0", "U+BAF1", "U+BAF2", "U+BAF3", "U+BAF4",
      "U+BAF5", "U+BAF6", "U+BAF7", "U+BAF8", "U+BAF9", "U+BAFA", "U+BAFB",
      "U+BAFC", "U+BAFD", "U+BAFE", "U+BAFF", "U+BB00", "U+BB01", "U+BB02",
      "U+BB03", "U+BB04", "U+BB05", "U+BB06", "U+BB07", "U+BB08", "U+BB09",
      "U+BB0A", "U+BB0B", "U+BB0C", "U+BB0D", "U+BB0E", "U+BB0F", "U+BB10",
      "U+BB11", "U+BB12", "U+BB13", "U+BB14", "U+BB15", "U+BB16", "U+BB17",
      "U+BB18", "U+BB19", "U+BB1A", "U+BB1B", "U+BB1C", "U+BB1D", "U+BB1E",
      "U+BB1F", "U+BB20", "U+BB21", "U+BB22", "U+BB23", "U+BB24", "U+BB25",
      "U+BB26", "U+BB27", "U+BB28", "U+BB29", "U+BB2A", "U+BB2B", "U+BB2C",
      "U+BB2D", "U+BB2E", "U+BB2F", "U+BB30", "U+BB31", "U+BB32", "U+BB33",
      "U+BB34", "U+BB35", "U+BB36", "U+BB37", "U+BB38", "U+BB39", "U+BB3A",
      "U+BB3B", "U+BB3C", "U+BB3D", "U+BB3E", "U+BB3F", "U+BB40", "U+BB41",
      "U+BB42", "U+BB43", "U+BB44", "U+BB45", "U+BB46", "U+BB47", "U+BB48",
      "U+BB49", "U+BB4A", "U+BB4B", "U+BB4C", "U+BB4D", "U+BB4E", "U+BB4F",
      "U+BB50", "U+BB51", "U+BB52", "U+BB53", "U+BB54", "U+BB55", "U+BB56",
      "U+BB57", "U+BB58", "U+BB59", "U+BB5A", "U+BB5B", "U+BB5C", "U+BB5D",
      "U+BB5E", "U+BB5F", "U+BB60", "U+BB61", "U+BB62", "U+BB63", "U+BB64",
      "U+BB65", "U+BB66", "U+BB67", "U+BB68", "U+BB69", "U+BB6A", "U+BB6B",
      "U+BB6C", "U+BB6D", "U+BB6E", "U+BB6F", "U+BB70", "U+BB71", "U+BB72",
      "U+BB73", "U+BB74", "U+BB75", "U+BB76", "U+BB77", "U+BB78", "U+BB79",
      "U+BB7A", "U+BB7B", "U+BB7C", "U+BB7D", "U+BB7E", "U+BB7F", "U+BB80",
      "U+BB81", "U+BB82", "U+BB83", "U+BB84", "U+BB85", "U+BB86", "U+BB87",
      "U+BB88", "U+BB89", "U+BB8A", "U+BB8B", "U+BB8C", "U+BB8D", "U+BB8E",
      "U+BB8F", "U+BB90", "U+BB91", "U+BB92", "U+BB93", "U+BB94", "U+BB95",
      "U+BB96", "U+BB97", "U+BB98", "U+BB99", "U+BB9A", "U+BB9B", "U+BB9C",
      "U+BB9D", "U+BB9E", "U+BB9F", "U+BBA0", "U+BBA1", "U+BBA2", "U+BBA3",
      "U+BBA4", "U+BBA5", "U+BBA6", "U+BBA7", "U+BBA8", "U+BBA9", "U+BBAA",
      "U+BBAB", "U+BBAC", "U+BBAD", "U+BBAE", "U+BBAF", "U+BBB0", "U+BBB1",
      "U+BBB2", "U+BBB3", "U+BBB4", "U+BBB5", "U+BBB6", "U+BBB7", "U+BBB8",
      "U+BBB9", "U+BBBA", "U+BBBB", "U+BBBC", "U+BBBD", "U+BBBE", "U+BBBF",
      "U+BBC0", "U+BBC1", "U+BBC2", "U+BBC3", "U+BBC4", "U+BBC5", "U+BBC6",
      "U+BBC7", "U+BBC8", "U+BBC9", "U+BBCA", "U+BBCB", "U+BBCC", "U+BBCD",
      "U+BBCE", "U+BBCF", "U+BBD0", "U+BBD1", "U+BBD2", "U+BBD3", "U+BBD4",
      "U+BBD5", "U+BBD6", "U+BBD7", "U+BBD8", "U+BBD9", "U+BBDA", "U+BBDB",
      "U+BBDC", "U+BBDD", "U+BBDE", "U+BBDF", "U+BBE0", "U+BBE1", "U+BBE2",
      "U+BBE3", "U+BBE4", "U+BBE5", "U+BBE6", "U+BBE7", "U+BBE8", "U+BBE9",
      "U+BBEA", "U+BBEB", "U+BBEC", "U+BBED", "U+BBEE", "U+BBEF", "U+BBF0",
      "U+BBF1", "U+BBF2", "U+BBF3", "U+BBF4", "U+BBF5", "U+BBF6", "U+BBF7",
      "U+BBF8", "U+BBF9", "U+BBFA", "U+BBFB", "U+BBFC", "U+BBFD", "U+BBFE",
      "U+BBFF", "U+BC00", "U+BC01", "U+BC02", "U+BC03", "U+BC04", "U+BC05",
      "U+BC06", "U+BC07", "U+BC08", "U+BC09", "U+BC0A", "U+BC0B", "U+BC0C",
      "U+BC0D", "U+BC0E", "U+BC0F", "U+BC10", "U+BC11", "U+BC12", "U+BC13",
      "U+BC14", "U+BC15", "U+BC16", "U+BC17", "U+BC18", "U+BC19", "U+BC1A",
      "U+BC1B", "U+BC1C", "U+BC1D", "U+BC1E", "U+BC1F", "U+BC20", "U+BC21",
      "U+BC22", "U+BC23", "U+BC24", "U+BC25", "U+BC26", "U+BC27", "U+BC28",
      "U+BC29", "U+BC2A", "U+BC2B", "U+BC2C", "U+BC2D", "U+BC2E", "U+BC2F",
      "U+BC30", "U+BC31", "U+BC32", "U+BC33", "U+BC34", "U+BC35", "U+BC36",
      "U+BC37", "U+BC38", "U+BC39", "U+BC3A", "U+BC3B", "U+BC3C", "U+BC3D",
      "U+BC3E", "U+BC3F", "U+BC40", "U+BC41", "U+BC42", "U+BC43", "U+BC44",
      "U+BC45", "U+BC46", "U+BC47", "U+BC48", "U+BC49", "U+BC4A", "U+BC4B",
      "U+BC4C", "U+BC4D", "U+BC4E", "U+BC4F", "U+BC50", "U+BC51", "U+BC52",
      "U+BC53", "U+BC54", "U+BC55", "U+BC56", "U+BC57", "U+BC58", "U+BC59",
      "U+BC5A", "U+BC5B", "U+BC5C", "U+BC5D", "U+BC5E", "U+BC5F", "U+BC60",
      "U+BC61", "U+BC62", "U+BC63", "U+BC64", "U+BC65", "U+BC66", "U+BC67",
      "U+BC68", "U+BC69", "U+BC6A", "U+BC6B", "U+BC6C", "U+BC6D", "U+BC6E",
      "U+BC6F", "U+BC70", "U+BC71", "U+BC72", "U+BC73", "U+BC74", "U+BC75",
      "U+BC76", "U+BC77", "U+BC78", "U+BC79", "U+BC7A", "U+BC7B", "U+BC7C",
      "U+BC7D", "U+BC7E", "U+BC7F", "U+BC80", "U+BC81", "U+BC82", "U+BC83",
      "U+BC84", "U+BC85", "U+BC86", "U+BC87", "U+BC88", "U+BC89", "U+BC8A",
      "U+BC8B", "U+BC8C", "U+BC8D", "U+BC8E", "U+BC8F", "U+BC90", "U+BC91",
      "U+BC92", "U+BC93", "U+BC94", "U+BC95", "U+BC96", "U+BC97", "U+BC98",
      "U+BC99", "U+BC9A", "U+BC9B", "U+BC9C", "U+BC9D", "U+BC9E", "U+BC9F",
      "U+BCA0", "U+BCA1", "U+BCA2", "U+BCA3", "U+BCA4", "U+BCA5", "U+BCA6",
      "U+BCA7", "U+BCA8", "U+BCA9", "U+BCAA", "U+BCAB", "U+BCAC", "U+BCAD",
      "U+BCAE", "U+BCAF", "U+BCB0", "U+BCB1", "U+BCB2", "U+BCB3", "U+BCB4",
      "U+BCB5", "U+BCB6", "U+BCB7", "U+BCB8", "U+BCB9", "U+BCBA", "U+BCBB",
      "U+BCBC", "U+BCBD", "U+BCBE", "U+BCBF", "U+BCC0", "U+BCC1", "U+BCC2",
      "U+BCC3", "U+BCC4", "U+BCC5", "U+BCC6", "U+BCC7", "U+BCC8", "U+BCC9",
      "U+BCCA", "U+BCCB", "U+BCCC", "U+BCCD", "U+BCCE", "U+BCCF", "U+BCD0",
      "U+BCD1", "U+BCD2", "U+BCD3", "U+BCD4", "U+BCD5", "U+BCD6", "U+BCD7",
      "U+BCD8", "U+BCD9", "U+BCDA", "U+BCDB", "U+BCDC", "U+BCDD", "U+BCDE",
      "U+BCDF", "U+BCE0", "U+BCE1", "U+BCE2", "U+BCE3", "U+BCE4", "U+BCE5",
      "U+BCE6", "U+BCE7", "U+BCE8", "U+BCE9", "U+BCEA", "U+BCEB", "U+BCEC",
      "U+BCED", "U+BCEE", "U+BCEF", "U+BCF0", "U+BCF1", "U+BCF2", "U+BCF3",
      "U+BCF4", "U+BCF5", "U+BCF6", "U+BCF7", "U+BCF8", "U+BCF9", "U+BCFA",
      "U+BCFB", "U+BCFC", "U+BCFD", "U+BCFE", "U+BCFF", "U+BD00", "U+BD01",
      "U+BD02", "U+BD03", "U+BD04", "U+BD05", "U+BD06", "U+BD07", "U+BD08",
      "U+BD09", "U+BD0A", "U+BD0B", "U+BD0C", "U+BD0D", "U+BD0E", "U+BD0F",
      "U+BD10", "U+BD11", "U+BD12", "U+BD13", "U+BD14", "U+BD15", "U+BD16",
      "U+BD17", "U+BD18", "U+BD19", "U+BD1A", "U+BD1B", "U+BD1C", "U+BD1D",
      "U+BD1E", "U+BD1F", "U+BD20", "U+BD21", "U+BD22", "U+BD23", "U+BD24",
      "U+BD25", "U+BD26", "U+BD27", "U+BD28", "U+BD29", "U+BD2A", "U+BD2B",
      "U+BD2C", "U+BD2D", "U+BD2E", "U+BD2F", "U+BD30", "U+BD31", "U+BD32",
      "U+BD33", "U+BD34", "U+BD35", "U+BD36", "U+BD37", "U+BD38", "U+BD39",
      "U+BD3A", "U+BD3B", "U+BD3C", "U+BD3D", "U+BD3E", "U+BD3F", "U+BD40",
      "U+BD41", "U+BD42", "U+BD43", "U+BD44", "U+BD45", "U+BD46", "U+BD47",
      "U+BD48", "U+BD49", "U+BD4A", "U+BD4B", "U+BD4C", "U+BD4D", "U+BD4E",
      "U+BD4F", "U+BD50", "U+BD51", "U+BD52", "U+BD53", "U+BD54", "U+BD55",
      "U+BD56", "U+BD57", "U+BD58", "U+BD59", "U+BD5A", "U+BD5B", "U+BD5C",
      "U+BD5D", "U+BD5E", "U+BD5F", "U+BD60", "U+BD61", "U+BD62", "U+BD63",
      "U+BD64", "U+BD65", "U+BD66", "U+BD67", "U+BD68", "U+BD69", "U+BD6A",
      "U+BD6B", "U+BD6C", "U+BD6D", "U+BD6E", "U+BD6F", "U+BD70", "U+BD71",
      "U+BD72", "U+BD73", "U+BD74", "U+BD75", "U+BD76", "U+BD77", "U+BD78",
      "U+BD79", "U+BD7A", "U+BD7B", "U+BD7C", "U+BD7D", "U+BD7E", "U+BD7F",
      "U+BD80", "U+BD81", "U+BD82", "U+BD83", "U+BD84", "U+BD85", "U+BD86",
      "U+BD87", "U+BD88", "U+BD89", "U+BD8A", "U+BD8B", "U+BD8C", "U+BD8D",
      "U+BD8E", "U+BD8F", "U+BD90", "U+BD91", "U+BD92", "U+BD93", "U+BD94",
      "U+BD95", "U+BD96", "U+BD97", "U+BD98", "U+BD99", "U+BD9A", "U+BD9B",
      "U+BD9C", "U+BD9D", "U+BD9E", "U+BD9F", "U+BDA0", "U+BDA1", "U+BDA2",
      "U+BDA3", "U+BDA4", "U+BDA5", "U+BDA6", "U+BDA7", "U+BDA8", "U+BDA9",
      "U+BDAA", "U+BDAB", "U+BDAC", "U+BDAD", "U+BDAE", "U+BDAF", "U+BDB0",
      "U+BDB1", "U+BDB2", "U+BDB3", "U+BDB4", "U+BDB5", "U+BDB6", "U+BDB7",
      "U+BDB8", "U+BDB9", "U+BDBA", "U+BDBB", "U+BDBC", "U+BDBD", "U+BDBE",
      "U+BDBF", "U+BDC0", "U+BDC1", "U+BDC2", "U+BDC3", "U+BDC4", "U+BDC5",
      "U+BDC6", "U+BDC7", "U+BDC8", "U+BDC9", "U+BDCA", "U+BDCB", "U+BDCC",
      "U+BDCD", "U+BDCE", "U+BDCF", "U+BDD0", "U+BDD1", "U+BDD2", "U+BDD3",
      "U+BDD4", "U+BDD5", "U+BDD6", "U+BDD7", "U+BDD8", "U+BDD9", "U+BDDA",
      "U+BDDB", "U+BDDC", "U+BDDD", "U+BDDE", "U+BDDF", "U+BDE0", "U+BDE1",
      "U+BDE2", "U+BDE3", "U+BDE4", "U+BDE5", "U+BDE6", "U+BDE7", "U+BDE8",
      "U+BDE9", "U+BDEA", "U+BDEB", "U+BDEC", "U+BDED", "U+BDEE", "U+BDEF",
      "U+BDF0", "U+BDF1", "U+BDF2", "U+BDF3", "U+BDF4", "U+BDF5", "U+BDF6",
      "U+BDF7", "U+BDF8", "U+BDF9", "U+BDFA", "U+BDFB", "U+BDFC", "U+BDFD",
      "U+BDFE", "U+BDFF", "U+BE00", "U+BE01", "U+BE02", "U+BE03", "U+BE04",
      "U+BE05", "U+BE06", "U+BE07", "U+BE08", "U+BE09", "U+BE0A", "U+BE0B",
      "U+BE0C", "U+BE0D", "U+BE0E", "U+BE0F", "U+BE10", "U+BE11", "U+BE12",
      "U+BE13", "U+BE14", "U+BE15", "U+BE16", "U+BE17", "U+BE18", "U+BE19",
      "U+BE1A", "U+BE1B", "U+BE1C", "U+BE1D", "U+BE1E", "U+BE1F", "U+BE20",
      "U+BE21", "U+BE22", "U+BE23", "U+BE24", "U+BE25", "U+BE26", "U+BE27",
      "U+BE28", "U+BE29", "U+BE2A", "U+BE2B", "U+BE2C", "U+BE2D", "U+BE2E",
      "U+BE2F", "U+BE30", "U+BE31", "U+BE32", "U+BE33", "U+BE34", "U+BE35",
      "U+BE36", "U+BE37", "U+BE38", "U+BE39", "U+BE3A", "U+BE3B", "U+BE3C",
      "U+BE3D", "U+BE3E", "U+BE3F", "U+BE40", "U+BE41", "U+BE42", "U+BE43",
      "U+BE44", "U+BE45", "U+BE46", "U+BE47", "U+BE48", "U+BE49", "U+BE4A",
      "U+BE4B", "U+BE4C", "U+BE4D", "U+BE4E", "U+BE4F", "U+BE50", "U+BE51",
      "U+BE52", "U+BE53", "U+BE54", "U+BE55", "U+BE56", "U+BE57", "U+BE58",
      "U+BE59", "U+BE5A", "U+BE5B", "U+BE5C", "U+BE5D", "U+BE5E", "U+BE5F",
      "U+BE60", "U+BE61", "U+BE62", "U+BE63", "U+BE64", "U+BE65", "U+BE66",
      "U+BE67", "U+BE68", "U+BE69", "U+BE6A", "U+BE6B", "U+BE6C", "U+BE6D",
      "U+BE6E", "U+BE6F", "U+BE70", "U+BE71", "U+BE72", "U+BE73", "U+BE74",
      "U+BE75", "U+BE76", "U+BE77", "U+BE78", "U+BE79", "U+BE7A", "U+BE7B",
      "U+BE7C", "U+BE7D", "U+BE7E", "U+BE7F", "U+BE80", "U+BE81", "U+BE82",
      "U+BE83", "U+BE84", "U+BE85", "U+BE86", "U+BE87", "U+BE88", "U+BE89",
      "U+BE8A", "U+BE8B", "U+BE8C", "U+BE8D", "U+BE8E", "U+BE8F", "U+BE90",
      "U+BE91", "U+BE92", "U+BE93", "U+BE94", "U+BE95", "U+BE96", "U+BE97",
      "U+BE98", "U+BE99", "U+BE9A", "U+BE9B", "U+BE9C", "U+BE9D", "U+BE9E",
      "U+BE9F", "U+BEA0", "U+BEA1", "U+BEA2", "U+BEA3", "U+BEA4", "U+BEA5",
      "U+BEA6", "U+BEA7", "U+BEA8", "U+BEA9", "U+BEAA", "U+BEAB", "U+BEAC",
      "U+BEAD", "U+BEAE", "U+BEAF", "U+BEB0", "U+BEB1", "U+BEB2", "U+BEB3",
      "U+BEB4", "U+BEB5", "U+BEB6", "U+BEB7", "U+BEB8", "U+BEB9", "U+BEBA",
      "U+BEBB", "U+BEBC", "U+BEBD", "U+BEBE", "U+BEBF", "U+BEC0", "U+BEC1",
      "U+BEC2", "U+BEC3", "U+BEC4", "U+BEC5", "U+BEC6", "U+BEC7", "U+BEC8",
      "U+BEC9", "U+BECA", "U+BECB", "U+BECC", "U+BECD", "U+BECE", "U+BECF",
      "U+BED0", "U+BED1", "U+BED2", "U+BED3", "U+BED4", "U+BED5", "U+BED6",
      "U+BED7", "U+BED8", "U+BED9", "U+BEDA", "U+BEDB", "U+BEDC", "U+BEDD",
      "U+BEDE", "U+BEDF", "U+BEE0", "U+BEE1", "U+BEE2", "U+BEE3", "U+BEE4",
      "U+BEE5", "U+BEE6", "U+BEE7", "U+BEE8", "U+BEE9", "U+BEEA", "U+BEEB",
      "U+BEEC", "U+BEED", "U+BEEE", "U+BEEF", "U+BEF0", "U+BEF1", "U+BEF2",
      "U+BEF3", "U+BEF4", "U+BEF5", "U+BEF6", "U+BEF7", "U+BEF8", "U+BEF9",
      "U+BEFA", "U+BEFB", "U+BEFC", "U+BEFD", "U+BEFE", "U+BEFF", "U+BF00",
      "U+BF01", "U+BF02", "U+BF03", "U+BF04", "U+BF05", "U+BF06", "U+BF07",
      "U+BF08", "U+BF09", "U+BF0A", "U+BF0B", "U+BF0C", "U+BF0D", "U+BF0E",
      "U+BF0F", "U+BF10", "U+BF11", "U+BF12", "U+BF13", "U+BF14", "U+BF15",
      "U+BF16", "U+BF17", "U+BF18", "U+BF19", "U+BF1A", "U+BF1B", "U+BF1C",
      "U+BF1D", "U+BF1E", "U+BF1F", "U+BF20", "U+BF21", "U+BF22", "U+BF23",
      "U+BF24", "U+BF25", "U+BF26", "U+BF27", "U+BF28", "U+BF29", "U+BF2A",
      "U+BF2B", "U+BF2C", "U+BF2D", "U+BF2E", "U+BF2F", "U+BF30", "U+BF31",
      "U+BF32", "U+BF33", "U+BF34", "U+BF35", "U+BF36", "U+BF37", "U+BF38",
      "U+BF39", "U+BF3A", "U+BF3B", "U+BF3C", "U+BF3D", "U+BF3E", "U+BF3F",
      "U+BF40", "U+BF41", "U+BF42", "U+BF43", "U+BF44", "U+BF45", "U+BF46",
      "U+BF47", "U+BF48", "U+BF49", "U+BF4A", "U+BF4B", "U+BF4C", "U+BF4D",
      "U+BF4E", "U+BF4F", "U+BF50", "U+BF51", "U+BF52", "U+BF53", "U+BF54",
      "U+BF55", "U+BF56", "U+BF57", "U+BF58", "U+BF59", "U+BF5A", "U+BF5B",
      "U+BF5C", "U+BF5D", "U+BF5E", "U+BF5F", "U+BF60", "U+BF61", "U+BF62",
      "U+BF63", "U+BF64", "U+BF65", "U+BF66", "U+BF67", "U+BF68", "U+BF69",
      "U+BF6A", "U+BF6B", "U+BF6C", "U+BF6D", "U+BF6E", "U+BF6F", "U+BF70",
      "U+BF71", "U+BF72", "U+BF73", "U+BF74", "U+BF75", "U+BF76", "U+BF77",
      "U+BF78", "U+BF79", "U+BF7A", "U+BF7B", "U+BF7C", "U+BF7D", "U+BF7E",
      "U+BF7F", "U+BF80", "U+BF81", "U+BF82", "U+BF83", "U+BF84", "U+BF85",
      "U+BF86", "U+BF87", "U+BF88", "U+BF89", "U+BF8A", "U+BF8B", "U+BF8C",
      "U+BF8D", "U+BF8E", "U+BF8F", "U+BF90", "U+BF91", "U+BF92", "U+BF93",
      "U+BF94", "U+BF95", "U+BF96", "U+BF97", "U+BF98", "U+BF99", "U+BF9A",
      "U+BF9B", "U+BF9C", "U+BF9D", "U+BF9E", "U+BF9F", "U+BFA0", "U+BFA1",
      "U+BFA2", "U+BFA3", "U+BFA4", "U+BFA5", "U+BFA6", "U+BFA7", "U+BFA8",
      "U+BFA9", "U+BFAA", "U+BFAB", "U+BFAC", "U+BFAD", "U+BFAE", "U+BFAF",
      "U+BFB0", "U+BFB1", "U+BFB2", "U+BFB3", "U+BFB4", "U+BFB5", "U+BFB6",
      "U+BFB7", "U+BFB8", "U+BFB9", "U+BFBA", "U+BFBB", "U+BFBC", "U+BFBD",
      "U+BFBE", "U+BFBF", "U+BFC0", "U+BFC1", "U+BFC2", "U+BFC3", "U+BFC4",
      "U+BFC5", "U+BFC6", "U+BFC7", "U+BFC8", "U+BFC9", "U+BFCA", "U+BFCB",
      "U+BFCC", "U+BFCD", "U+BFCE", "U+BFCF", "U+BFD0", "U+BFD1", "U+BFD2",
      "U+BFD3", "U+BFD4", "U+BFD5", "U+BFD6", "U+BFD7", "U+BFD8", "U+BFD9",
      "U+BFDA", "U+BFDB", "U+BFDC", "U+BFDD", "U+BFDE", "U+BFDF", "U+BFE0",
      "U+BFE1", "U+BFE2", "U+BFE3", "U+BFE4", "U+BFE5", "U+BFE6", "U+BFE7",
      "U+BFE8", "U+BFE9", "U+BFEA", "U+BFEB", "U+BFEC", "U+BFED", "U+BFEE",
      "U+BFEF", "U+BFF0", "U+BFF1", "U+BFF2", "U+BFF3", "U+BFF4", "U+BFF5",
      "U+BFF6", "U+BFF7", "U+BFF8", "U+BFF9", "U+BFFA", "U+BFFB", "U+BFFC",
      "U+BFFD", "U+BFFE", "U+BFFF", "U+C000", "U+C001", "U+C002", "U+C003",
      "U+C004", "U+C005", "U+C006", "U+C007", "U+C008", "U+C009", "U+C00A",
      "U+C00B", "U+C00C", "U+C00D", "U+C00E", "U+C00F", "U+C010", "U+C011",
      "U+C012", "U+C013", "U+C014", "U+C015", "U+C016", "U+C017", "U+C018",
      "U+C019", "U+C01A", "U+C01B", "U+C01C", "U+C01D", "U+C01E", "U+C01F",
      "U+C020", "U+C021", "U+C022", "U+C023", "U+C024", "U+C025", "U+C026",
      "U+C027", "U+C028", "U+C029", "U+C02A", "U+C02B", "U+C02C", "U+C02D",
      "U+C02E", "U+C02F", "U+C030", "U+C031", "U+C032", "U+C033", "U+C034",
      "U+C035", "U+C036", "U+C037", "U+C038", "U+C039", "U+C03A", "U+C03B",
      "U+C03C", "U+C03D", "U+C03E", "U+C03F", "U+C040", "U+C041", "U+C042",
      "U+C043", "U+C044", "U+C045", "U+C046", "U+C047", "U+C048", "U+C049",
      "U+C04A", "U+C04B", "U+C04C", "U+C04D", "U+C04E", "U+C04F", "U+C050",
      "U+C051", "U+C052", "U+C053", "U+C054", "U+C055", "U+C056", "U+C057",
      "U+C058", "U+C059", "U+C05A", "U+C05B", "U+C05C", "U+C05D", "U+C05E",
      "U+C05F", "U+C060", "U+C061", "U+C062", "U+C063", "U+C064", "U+C065",
      "U+C066", "U+C067", "U+C068", "U+C069", "U+C06A", "U+C06B", "U+C06C",
      "U+C06D", "U+C06E", "U+C06F", "U+C070", "U+C071", "U+C072", "U+C073",
      "U+C074", "U+C075", "U+C076", "U+C077", "U+C078", "U+C079", "U+C07A",
      "U+C07B", "U+C07C", "U+C07D", "U+C07E", "U+C07F", "U+C080", "U+C081",
      "U+C082", "U+C083", "U+C084", "U+C085", "U+C086", "U+C087", "U+C088",
      "U+C089", "U+C08A", "U+C08B", "U+C08C", "U+C08D", "U+C08E", "U+C08F",
      "U+C090", "U+C091", "U+C092", "U+C093", "U+C094", "U+C095", "U+C096",
      "U+C097", "U+C098", "U+C099", "U+C09A", "U+C09B", "U+C09C", "U+C09D",
      "U+C09E", "U+C09F", "U+C0A0", "U+C0A1", "U+C0A2", "U+C0A3", "U+C0A4",
      "U+C0A5", "U+C0A6", "U+C0A7", "U+C0A8", "U+C0A9", "U+C0AA", "U+C0AB",
      "U+C0AC", "U+C0AD", "U+C0AE", "U+C0AF", "U+C0B0", "U+C0B1", "U+C0B2",
      "U+C0B3", "U+C0B4", "U+C0B5", "U+C0B6", "U+C0B7", "U+C0B8", "U+C0B9",
      "U+C0BA", "U+C0BB", "U+C0BC", "U+C0BD", "U+C0BE", "U+C0BF", "U+C0C0",
      "U+C0C1", "U+C0C2", "U+C0C3", "U+C0C4", "U+C0C5", "U+C0C6", "U+C0C7",
      "U+C0C8", "U+C0C9", "U+C0CA", "U+C0CB", "U+C0CC", "U+C0CD", "U+C0CE",
      "U+C0CF", "U+C0D0", "U+C0D1", "U+C0D2", "U+C0D3", "U+C0D4", "U+C0D5",
      "U+C0D6", "U+C0D7", "U+C0D8", "U+C0D9", "U+C0DA", "U+C0DB", "U+C0DC",
      "U+C0DD", "U+C0DE", "U+C0DF", "U+C0E0", "U+C0E1", "U+C0E2", "U+C0E3",
      "U+C0E4", "U+C0E5", "U+C0E6", "U+C0E7", "U+C0E8", "U+C0E9", "U+C0EA",
      "U+C0EB", "U+C0EC", "U+C0ED", "U+C0EE", "U+C0EF", "U+C0F0", "U+C0F1",
      "U+C0F2", "U+C0F3", "U+C0F4", "U+C0F5", "U+C0F6", "U+C0F7", "U+C0F8",
      "U+C0F9", "U+C0FA", "U+C0FB", "U+C0FC", "U+C0FD", "U+C0FE", "U+C0FF",
      "U+C100", "U+C101", "U+C102", "U+C103", "U+C104", "U+C105", "U+C106",
      "U+C107", "U+C108", "U+C109", "U+C10A", "U+C10B", "U+C10C", "U+C10D",
      "U+C10E", "U+C10F", "U+C110", "U+C111", "U+C112", "U+C113", "U+C114",
      "U+C115", "U+C116", "U+C117", "U+C118", "U+C119", "U+C11A", "U+C11B",
      "U+C11C", "U+C11D", "U+C11E", "U+C11F", "U+C120", "U+C121", "U+C122",
      "U+C123", "U+C124", "U+C125", "U+C126", "U+C127", "U+C128", "U+C129",
      "U+C12A", "U+C12B", "U+C12C", "U+C12D", "U+C12E", "U+C12F", "U+C130",
      "U+C131", "U+C132", "U+C133", "U+C134", "U+C135", "U+C136", "U+C137",
      "U+C138", "U+C139", "U+C13A", "U+C13B", "U+C13C", "U+C13D", "U+C13E",
      "U+C13F", "U+C140", "U+C141", "U+C142", "U+C143", "U+C144", "U+C145",
      "U+C146", "U+C147", "U+C148", "U+C149", "U+C14A", "U+C14B", "U+C14C",
      "U+C14D", "U+C14E", "U+C14F", "U+C150", "U+C151", "U+C152", "U+C153",
      "U+C154", "U+C155", "U+C156", "U+C157", "U+C158", "U+C159", "U+C15A",
      "U+C15B", "U+C15C", "U+C15D", "U+C15E", "U+C15F", "U+C160", "U+C161",
      "U+C162", "U+C163", "U+C164", "U+C165", "U+C166", "U+C167", "U+C168",
      "U+C169", "U+C16A", "U+C16B", "U+C16C", "U+C16D", "U+C16E", "U+C16F",
      "U+C170", "U+C171", "U+C172", "U+C173", "U+C174", "U+C175", "U+C176",
      "U+C177", "U+C178", "U+C179", "U+C17A", "U+C17B", "U+C17C", "U+C17D",
      "U+C17E", "U+C17F", "U+C180", "U+C181", "U+C182", "U+C183", "U+C184",
      "U+C185", "U+C186", "U+C187", "U+C188", "U+C189", "U+C18A", "U+C18B",
      "U+C18C", "U+C18D", "U+C18E", "U+C18F", "U+C190", "U+C191", "U+C192",
      "U+C193", "U+C194", "U+C195", "U+C196", "U+C197", "U+C198", "U+C199",
      "U+C19A", "U+C19B", "U+C19C", "U+C19D", "U+C19E", "U+C19F", "U+C1A0",
      "U+C1A1", "U+C1A2", "U+C1A3", "U+C1A4", "U+C1A5", "U+C1A6", "U+C1A7",
      "U+C1A8", "U+C1A9", "U+C1AA", "U+C1AB", "U+C1AC", "U+C1AD", "U+C1AE",
      "U+C1AF", "U+C1B0", "U+C1B1", "U+C1B2", "U+C1B3", "U+C1B4", "U+C1B5",
      "U+C1B6", "U+C1B7", "U+C1B8", "U+C1B9", "U+C1BA", "U+C1BB", "U+C1BC",
      "U+C1BD", "U+C1BE", "U+C1BF", "U+C1C0", "U+C1C1", "U+C1C2", "U+C1C3",
      "U+C1C4", "U+C1C5", "U+C1C6", "U+C1C7", "U+C1C8", "U+C1C9", "U+C1CA",
      "U+C1CB", "U+C1CC", "U+C1CD", "U+C1CE", "U+C1CF", "U+C1D0", "U+C1D1",
      "U+C1D2", "U+C1D3", "U+C1D4", "U+C1D5", "U+C1D6", "U+C1D7", "U+C1D8",
      "U+C1D9", "U+C1DA", "U+C1DB", "U+C1DC", "U+C1DD", "U+C1DE", "U+C1DF",
      "U+C1E0", "U+C1E1", "U+C1E2", "U+C1E3", "U+C1E4", "U+C1E5", "U+C1E6",
      "U+C1E7", "U+C1E8", "U+C1E9", "U+C1EA", "U+C1EB", "U+C1EC", "U+C1ED",
      "U+C1EE", "U+C1EF", "U+C1F0", "U+C1F1", "U+C1F2", "U+C1F3", "U+C1F4",
      "U+C1F5", "U+C1F6", "U+C1F7", "U+C1F8", "U+C1F9", "U+C1FA", "U+C1FB",
      "U+C1FC", "U+C1FD", "U+C1FE", "U+C1FF", "U+C200", "U+C201", "U+C202",
      "U+C203", "U+C204", "U+C205", "U+C206", "U+C207", "U+C208", "U+C209",
      "U+C20A", "U+C20B", "U+C20C", "U+C20D", "U+C20E", "U+C20F", "U+C210",
      "U+C211", "U+C212", "U+C213", "U+C214", "U+C215", "U+C216", "U+C217",
      "U+C218", "U+C219", "U+C21A", "U+C21B", "U+C21C", "U+C21D", "U+C21E",
      "U+C21F", "U+C220", "U+C221", "U+C222", "U+C223", "U+C224", "U+C225",
      "U+C226", "U+C227", "U+C228", "U+C229", "U+C22A", "U+C22B", "U+C22C",
      "U+C22D", "U+C22E", "U+C22F", "U+C230", "U+C231", "U+C232", "U+C233",
      "U+C234", "U+C235", "U+C236", "U+C237", "U+C238", "U+C239", "U+C23A",
      "U+C23B", "U+C23C", "U+C23D", "U+C23E", "U+C23F", "U+C240", "U+C241",
      "U+C242", "U+C243", "U+C244", "U+C245", "U+C246", "U+C247", "U+C248",
      "U+C249", "U+C24A", "U+C24B", "U+C24C", "U+C24D", "U+C24E", "U+C24F",
      "U+C250", "U+C251", "U+C252", "U+C253", "U+C254", "U+C255", "U+C256",
      "U+C257", "U+C258", "U+C259", "U+C25A", "U+C25B", "U+C25C", "U+C25D",
      "U+C25E", "U+C25F", "U+C260", "U+C261", "U+C262", "U+C263", "U+C264",
      "U+C265", "U+C266", "U+C267", "U+C268", "U+C269", "U+C26A", "U+C26B",
      "U+C26C", "U+C26D", "U+C26E", "U+C26F", "U+C270", "U+C271", "U+C272",
      "U+C273", "U+C274", "U+C275", "U+C276", "U+C277", "U+C278", "U+C279",
      "U+C27A", "U+C27B", "U+C27C", "U+C27D", "U+C27E", "U+C27F", "U+C280",
      "U+C281", "U+C282", "U+C283", "U+C284", "U+C285", "U+C286", "U+C287",
      "U+C288", "U+C289", "U+C28A", "U+C28B", "U+C28C", "U+C28D", "U+C28E",
      "U+C28F", "U+C290", "U+C291", "U+C292", "U+C293", "U+C294", "U+C295",
      "U+C296", "U+C297", "U+C298", "U+C299", "U+C29A", "U+C29B", "U+C29C",
      "U+C29D", "U+C29E", "U+C29F", "U+C2A0", "U+C2A1", "U+C2A2", "U+C2A3",
      "U+C2A4", "U+C2A5", "U+C2A6", "U+C2A7", "U+C2A8", "U+C2A9", "U+C2AA",
      "U+C2AB", "U+C2AC", "U+C2AD", "U+C2AE", "U+C2AF", "U+C2B0", "U+C2B1",
      "U+C2B2", "U+C2B3", "U+C2B4", "U+C2B5", "U+C2B6", "U+C2B7", "U+C2B8",
      "U+C2B9", "U+C2BA", "U+C2BB", "U+C2BC", "U+C2BD", "U+C2BE", "U+C2BF",
      "U+C2C0", "U+C2C1", "U+C2C2", "U+C2C3", "U+C2C4", "U+C2C5", "U+C2C6",
      "U+C2C7", "U+C2C8", "U+C2C9", "U+C2CA", "U+C2CB", "U+C2CC", "U+C2CD",
      "U+C2CE", "U+C2CF", "U+C2D0", "U+C2D1", "U+C2D2", "U+C2D3", "U+C2D4",
      "U+C2D5", "U+C2D6", "U+C2D7", "U+C2D8", "U+C2D9", "U+C2DA", "U+C2DB",
      "U+C2DC", "U+C2DD", "U+C2DE", "U+C2DF", "U+C2E0", "U+C2E1", "U+C2E2",
      "U+C2E3", "U+C2E4", "U+C2E5", "U+C2E6", "U+C2E7", "U+C2E8", "U+C2E9",
      "U+C2EA", "U+C2EB", "U+C2EC", "U+C2ED", "U+C2EE", "U+C2EF", "U+C2F0",
      "U+C2F1", "U+C2F2", "U+C2F3", "U+C2F4", "U+C2F5", "U+C2F6", "U+C2F7",
      "U+C2F8", "U+C2F9", "U+C2FA", "U+C2FB", "U+C2FC", "U+C2FD", "U+C2FE",
      "U+C2FF", "U+C300", "U+C301", "U+C302", "U+C303", "U+C304", "U+C305",
      "U+C306", "U+C307", "U+C308", "U+C309", "U+C30A", "U+C30B", "U+C30C",
      "U+C30D", "U+C30E", "U+C30F", "U+C310", "U+C311", "U+C312", "U+C313",
      "U+C314", "U+C315", "U+C316", "U+C317", "U+C318", "U+C319", "U+C31A",
      "U+C31B", "U+C31C", "U+C31D", "U+C31E", "U+C31F", "U+C320", "U+C321",
      "U+C322", "U+C323", "U+C324", "U+C325", "U+C326", "U+C327", "U+C328",
      "U+C329", "U+C32A", "U+C32B", "U+C32C", "U+C32D", "U+C32E", "U+C32F",
      "U+C330", "U+C331", "U+C332", "U+C333", "U+C334", "U+C335", "U+C336",
      "U+C337", "U+C338", "U+C339", "U+C33A", "U+C33B", "U+C33C", "U+C33D",
      "U+C33E", "U+C33F", "U+C340", "U+C341", "U+C342", "U+C343", "U+C344",
      "U+C345", "U+C346", "U+C347", "U+C348", "U+C349", "U+C34A", "U+C34B",
      "U+C34C", "U+C34D", "U+C34E", "U+C34F", "U+C350", "U+C351", "U+C352",
      "U+C353", "U+C354", "U+C355", "U+C356", "U+C357", "U+C358", "U+C359",
      "U+C35A", "U+C35B", "U+C35C", "U+C35D", "U+C35E", "U+C35F", "U+C360",
      "U+C361", "U+C362", "U+C363", "U+C364", "U+C365", "U+C366", "U+C367",
      "U+C368", "U+C369", "U+C36A", "U+C36B", "U+C36C", "U+C36D", "U+C36E",
      "U+C36F", "U+C370", "U+C371", "U+C372", "U+C373", "U+C374", "U+C375",
      "U+C376", "U+C377", "U+C378", "U+C379", "U+C37A", "U+C37B", "U+C37C",
      "U+C37D", "U+C37E", "U+C37F", "U+C380", "U+C381", "U+C382", "U+C383",
      "U+C384", "U+C385", "U+C386", "U+C387", "U+C388", "U+C389", "U+C38A",
      "U+C38B", "U+C38C", "U+C38D", "U+C38E", "U+C38F", "U+C390", "U+C391",
      "U+C392", "U+C393", "U+C394", "U+C395", "U+C396", "U+C397", "U+C398",
      "U+C399", "U+C39A", "U+C39B", "U+C39C", "U+C39D", "U+C39E", "U+C39F",
      "U+C3A0", "U+C3A1", "U+C3A2", "U+C3A3", "U+C3A4", "U+C3A5", "U+C3A6",
      "U+C3A7", "U+C3A8", "U+C3A9", "U+C3AA", "U+C3AB", "U+C3AC", "U+C3AD",
      "U+C3AE", "U+C3AF", "U+C3B0", "U+C3B1", "U+C3B2", "U+C3B3", "U+C3B4",
      "U+C3B5", "U+C3B6", "U+C3B7", "U+C3B8", "U+C3B9", "U+C3BA", "U+C3BB",
      "U+C3BC", "U+C3BD", "U+C3BE", "U+C3BF", "U+C3C0", "U+C3C1", "U+C3C2",
      "U+C3C3", "U+C3C4", "U+C3C5", "U+C3C6", "U+C3C7", "U+C3C8", "U+C3C9",
      "U+C3CA", "U+C3CB", "U+C3CC", "U+C3CD", "U+C3CE", "U+C3CF", "U+C3D0",
      "U+C3D1", "U+C3D2", "U+C3D3", "U+C3D4", "U+C3D5", "U+C3D6", "U+C3D7",
      "U+C3D8", "U+C3D9", "U+C3DA", "U+C3DB", "U+C3DC", "U+C3DD", "U+C3DE",
      "U+C3DF", "U+C3E0", "U+C3E1", "U+C3E2", "U+C3E3", "U+C3E4", "U+C3E5",
      "U+C3E6", "U+C3E7", "U+C3E8", "U+C3E9", "U+C3EA", "U+C3EB", "U+C3EC",
      "U+C3ED", "U+C3EE", "U+C3EF", "U+C3F0", "U+C3F1", "U+C3F2", "U+C3F3",
      "U+C3F4", "U+C3F5", "U+C3F6", "U+C3F7", "U+C3F8", "U+C3F9", "U+C3FA",
      "U+C3FB", "U+C3FC", "U+C3FD", "U+C3FE", "U+C3FF", "U+C400", "U+C401",
      "U+C402", "U+C403", "U+C404", "U+C405", "U+C406", "U+C407", "U+C408",
      "U+C409", "U+C40A", "U+C40B", "U+C40C", "U+C40D", "U+C40E", "U+C40F",
      "U+C410", "U+C411", "U+C412", "U+C413", "U+C414", "U+C415", "U+C416",
      "U+C417", "U+C418", "U+C419", "U+C41A", "U+C41B", "U+C41C", "U+C41D",
      "U+C41E", "U+C41F", "U+C420", "U+C421", "U+C422", "U+C423", "U+C424",
      "U+C425", "U+C426", "U+C427", "U+C428", "U+C429", "U+C42A", "U+C42B",
      "U+C42C", "U+C42D", "U+C42E", "U+C42F", "U+C430", "U+C431", "U+C432",
      "U+C433", "U+C434", "U+C435", "U+C436", "U+C437", "U+C438", "U+C439",
      "U+C43A", "U+C43B", "U+C43C", "U+C43D", "U+C43E", "U+C43F", "U+C440",
      "U+C441", "U+C442", "U+C443", "U+C444", "U+C445", "U+C446", "U+C447",
      "U+C448", "U+C449", "U+C44A", "U+C44B", "U+C44C", "U+C44D", "U+C44E",
      "U+C44F", "U+C450", "U+C451", "U+C452", "U+C453", "U+C454", "U+C455",
      "U+C456", "U+C457", "U+C458", "U+C459", "U+C45A", "U+C45B", "U+C45C",
      "U+C45D", "U+C45E", "U+C45F", "U+C460", "U+C461", "U+C462", "U+C463",
      "U+C464", "U+C465", "U+C466", "U+C467", "U+C468", "U+C469", "U+C46A",
      "U+C46B", "U+C46C", "U+C46D", "U+C46E", "U+C46F", "U+C470", "U+C471",
      "U+C472", "U+C473", "U+C474", "U+C475", "U+C476", "U+C477", "U+C478",
      "U+C479", "U+C47A", "U+C47B", "U+C47C", "U+C47D", "U+C47E", "U+C47F",
      "U+C480", "U+C481", "U+C482", "U+C483", "U+C484", "U+C485", "U+C486",
      "U+C487", "U+C488", "U+C489", "U+C48A", "U+C48B", "U+C48C", "U+C48D",
      "U+C48E", "U+C48F", "U+C490", "U+C491", "U+C492", "U+C493", "U+C494",
      "U+C495", "U+C496", "U+C497", "U+C498", "U+C499", "U+C49A", "U+C49B",
      "U+C49C", "U+C49D", "U+C49E", "U+C49F", "U+C4A0", "U+C4A1", "U+C4A2",
      "U+C4A3", "U+C4A4", "U+C4A5", "U+C4A6", "U+C4A7", "U+C4A8", "U+C4A9",
      "U+C4AA", "U+C4AB", "U+C4AC", "U+C4AD", "U+C4AE", "U+C4AF", "U+C4B0",
      "U+C4B1", "U+C4B2", "U+C4B3", "U+C4B4", "U+C4B5", "U+C4B6", "U+C4B7",
      "U+C4B8", "U+C4B9", "U+C4BA", "U+C4BB", "U+C4BC", "U+C4BD", "U+C4BE",
      "U+C4BF", "U+C4C0", "U+C4C1", "U+C4C2", "U+C4C3", "U+C4C4", "U+C4C5",
      "U+C4C6", "U+C4C7", "U+C4C8", "U+C4C9", "U+C4CA", "U+C4CB", "U+C4CC",
      "U+C4CD", "U+C4CE", "U+C4CF", "U+C4D0", "U+C4D1", "U+C4D2", "U+C4D3",
      "U+C4D4", "U+C4D5", "U+C4D6", "U+C4D7", "U+C4D8", "U+C4D9", "U+C4DA",
      "U+C4DB", "U+C4DC", "U+C4DD", "U+C4DE", "U+C4DF", "U+C4E0", "U+C4E1",
      "U+C4E2", "U+C4E3", "U+C4E4", "U+C4E5", "U+C4E6", "U+C4E7", "U+C4E8",
      "U+C4E9", "U+C4EA", "U+C4EB", "U+C4EC", "U+C4ED", "U+C4EE", "U+C4EF",
      "U+C4F0", "U+C4F1", "U+C4F2", "U+C4F3", "U+C4F4", "U+C4F5", "U+C4F6",
      "U+C4F7", "U+C4F8", "U+C4F9", "U+C4FA", "U+C4FB", "U+C4FC", "U+C4FD",
      "U+C4FE", "U+C4FF", "U+C500", "U+C501", "U+C502", "U+C503", "U+C504",
      "U+C505", "U+C506", "U+C507", "U+C508", "U+C509", "U+C50A", "U+C50B",
      "U+C50C", "U+C50D", "U+C50E", "U+C50F", "U+C510", "U+C511", "U+C512",
      "U+C513", "U+C514", "U+C515", "U+C516", "U+C517", "U+C518", "U+C519",
      "U+C51A", "U+C51B", "U+C51C", "U+C51D", "U+C51E", "U+C51F", "U+C520",
      "U+C521", "U+C522", "U+C523", "U+C524", "U+C525", "U+C526", "U+C527",
      "U+C528", "U+C529", "U+C52A", "U+C52B", "U+C52C", "U+C52D", "U+C52E",
      "U+C52F", "U+C530", "U+C531", "U+C532", "U+C533", "U+C534", "U+C535",
      "U+C536", "U+C537", "U+C538", "U+C539", "U+C53A", "U+C53B", "U+C53C",
      "U+C53D", "U+C53E", "U+C53F", "U+C540", "U+C541", "U+C542", "U+C543",
      "U+C544", "U+C545", "U+C546", "U+C547", "U+C548", "U+C549", "U+C54A",
      "U+C54B", "U+C54C", "U+C54D", "U+C54E", "U+C54F", "U+C550", "U+C551",
      "U+C552", "U+C553", "U+C554", "U+C555", "U+C556", "U+C557", "U+C558",
      "U+C559", "U+C55A", "U+C55B", "U+C55C", "U+C55D", "U+C55E", "U+C55F",
      "U+C560", "U+C561", "U+C562", "U+C563", "U+C564", "U+C565", "U+C566",
      "U+C567", "U+C568", "U+C569", "U+C56A", "U+C56B", "U+C56C", "U+C56D",
      "U+C56E", "U+C56F", "U+C570", "U+C571", "U+C572", "U+C573", "U+C574",
      "U+C575", "U+C576", "U+C577", "U+C578", "U+C579", "U+C57A", "U+C57B",
      "U+C57C", "U+C57D", "U+C57E", "U+C57F", "U+C580", "U+C581", "U+C582",
      "U+C583", "U+C584", "U+C585", "U+C586", "U+C587", "U+C588", "U+C589",
      "U+C58A", "U+C58B", "U+C58C", "U+C58D", "U+C58E", "U+C58F", "U+C590",
      "U+C591", "U+C592", "U+C593", "U+C594", "U+C595", "U+C596", "U+C597",
      "U+C598", "U+C599", "U+C59A", "U+C59B", "U+C59C", "U+C59D", "U+C59E",
      "U+C59F", "U+C5A0", "U+C5A1", "U+C5A2", "U+C5A3", "U+C5A4", "U+C5A5",
      "U+C5A6", "U+C5A7", "U+C5A8", "U+C5A9", "U+C5AA", "U+C5AB", "U+C5AC",
      "U+C5AD", "U+C5AE", "U+C5AF", "U+C5B0", "U+C5B1", "U+C5B2", "U+C5B3",
      "U+C5B4", "U+C5B5", "U+C5B6", "U+C5B7", "U+C5B8", "U+C5B9", "U+C5BA",
      "U+C5BB", "U+C5BC", "U+C5BD", "U+C5BE", "U+C5BF", "U+C5C0", "U+C5C1",
      "U+C5C2", "U+C5C3", "U+C5C4", "U+C5C5", "U+C5C6", "U+C5C7", "U+C5C8",
      "U+C5C9", "U+C5CA", "U+C5CB", "U+C5CC", "U+C5CD", "U+C5CE", "U+C5CF",
      "U+C5D0", "U+C5D1", "U+C5D2", "U+C5D3", "U+C5D4", "U+C5D5", "U+C5D6",
      "U+C5D7", "U+C5D8", "U+C5D9", "U+C5DA", "U+C5DB", "U+C5DC", "U+C5DD",
      "U+C5DE", "U+C5DF", "U+C5E0", "U+C5E1", "U+C5E2", "U+C5E3", "U+C5E4",
      "U+C5E5", "U+C5E6", "U+C5E7", "U+C5E8", "U+C5E9", "U+C5EA", "U+C5EB",
      "U+C5EC", "U+C5ED", "U+C5EE", "U+C5EF", "U+C5F0", "U+C5F1", "U+C5F2",
      "U+C5F3", "U+C5F4", "U+C5F5", "U+C5F6", "U+C5F7", "U+C5F8", "U+C5F9",
      "U+C5FA", "U+C5FB", "U+C5FC", "U+C5FD", "U+C5FE", "U+C5FF", "U+C600",
      "U+C601", "U+C602", "U+C603", "U+C604", "U+C605", "U+C606", "U+C607",
      "U+C608", "U+C609", "U+C60A", "U+C60B", "U+C60C", "U+C60D", "U+C60E",
      "U+C60F", "U+C610", "U+C611", "U+C612", "U+C613", "U+C614", "U+C615",
      "U+C616", "U+C617", "U+C618", "U+C619", "U+C61A", "U+C61B", "U+C61C",
      "U+C61D", "U+C61E", "U+C61F", "U+C620", "U+C621", "U+C622", "U+C623",
      "U+C624", "U+C625", "U+C626", "U+C627", "U+C628", "U+C629", "U+C62A",
      "U+C62B", "U+C62C", "U+C62D", "U+C62E", "U+C62F", "U+C630", "U+C631",
      "U+C632", "U+C633", "U+C634", "U+C635", "U+C636", "U+C637", "U+C638",
      "U+C639", "U+C63A", "U+C63B", "U+C63C", "U+C63D", "U+C63E", "U+C63F",
      "U+C640", "U+C641", "U+C642", "U+C643", "U+C644", "U+C645", "U+C646",
      "U+C647", "U+C648", "U+C649", "U+C64A", "U+C64B", "U+C64C", "U+C64D",
      "U+C64E", "U+C64F", "U+C650", "U+C651", "U+C652", "U+C653", "U+C654",
      "U+C655", "U+C656", "U+C657", "U+C658", "U+C659", "U+C65A", "U+C65B",
      "U+C65C", "U+C65D", "U+C65E", "U+C65F", "U+C660", "U+C661", "U+C662",
      "U+C663", "U+C664", "U+C665", "U+C666", "U+C667", "U+C668", "U+C669",
      "U+C66A", "U+C66B", "U+C66C", "U+C66D", "U+C66E", "U+C66F", "U+C670",
      "U+C671", "U+C672", "U+C673", "U+C674", "U+C675", "U+C676", "U+C677",
      "U+C678", "U+C679", "U+C67A", "U+C67B", "U+C67C", "U+C67D", "U+C67E",
      "U+C67F", "U+C680", "U+C681", "U+C682", "U+C683", "U+C684", "U+C685",
      "U+C686", "U+C687", "U+C688", "U+C689", "U+C68A", "U+C68B", "U+C68C",
      "U+C68D", "U+C68E", "U+C68F", "U+C690", "U+C691", "U+C692", "U+C693",
      "U+C694", "U+C695", "U+C696", "U+C697", "U+C698", "U+C699", "U+C69A",
      "U+C69B", "U+C69C", "U+C69D", "U+C69E", "U+C69F", "U+C6A0", "U+C6A1",
      "U+C6A2", "U+C6A3", "U+C6A4", "U+C6A5", "U+C6A6", "U+C6A7", "U+C6A8",
      "U+C6A9", "U+C6AA", "U+C6AB", "U+C6AC", "U+C6AD", "U+C6AE", "U+C6AF",
      "U+C6B0", "U+C6B1", "U+C6B2", "U+C6B3", "U+C6B4", "U+C6B5", "U+C6B6",
      "U+C6B7", "U+C6B8", "U+C6B9", "U+C6BA", "U+C6BB", "U+C6BC", "U+C6BD",
      "U+C6BE", "U+C6BF", "U+C6C0", "U+C6C1", "U+C6C2", "U+C6C3", "U+C6C4",
      "U+C6C5", "U+C6C6", "U+C6C7", "U+C6C8", "U+C6C9", "U+C6CA", "U+C6CB",
      "U+C6CC", "U+C6CD", "U+C6CE", "U+C6CF", "U+C6D0", "U+C6D1", "U+C6D2",
      "U+C6D3", "U+C6D4", "U+C6D5", "U+C6D6", "U+C6D7", "U+C6D8", "U+C6D9",
      "U+C6DA", "U+C6DB", "U+C6DC", "U+C6DD", "U+C6DE", "U+C6DF", "U+C6E0",
      "U+C6E1", "U+C6E2", "U+C6E3", "U+C6E4", "U+C6E5", "U+C6E6", "U+C6E7",
      "U+C6E8", "U+C6E9", "U+C6EA", "U+C6EB", "U+C6EC", "U+C6ED", "U+C6EE",
      "U+C6EF", "U+C6F0", "U+C6F1", "U+C6F2", "U+C6F3", "U+C6F4", "U+C6F5",
      "U+C6F6", "U+C6F7", "U+C6F8", "U+C6F9", "U+C6FA", "U+C6FB", "U+C6FC",
      "U+C6FD", "U+C6FE", "U+C6FF", "U+C700", "U+C701", "U+C702", "U+C703",
      "U+C704", "U+C705", "U+C706", "U+C707", "U+C708", "U+C709", "U+C70A",
      "U+C70B", "U+C70C", "U+C70D", "U+C70E", "U+C70F", "U+C710", "U+C711",
      "U+C712", "U+C713", "U+C714", "U+C715", "U+C716", "U+C717", "U+C718",
      "U+C719", "U+C71A", "U+C71B", "U+C71C", "U+C71D", "U+C71E", "U+C71F",
      "U+C720", "U+C721", "U+C722", "U+C723", "U+C724", "U+C725", "U+C726",
      "U+C727", "U+C728", "U+C729", "U+C72A", "U+C72B", "U+C72C", "U+C72D",
      "U+C72E", "U+C72F", "U+C730", "U+C731", "U+C732", "U+C733", "U+C734",
      "U+C735", "U+C736", "U+C737", "U+C738", "U+C739", "U+C73A", "U+C73B",
      "U+C73C", "U+C73D", "U+C73E", "U+C73F", "U+C740", "U+C741", "U+C742",
      "U+C743", "U+C744", "U+C745", "U+C746", "U+C747", "U+C748", "U+C749",
      "U+C74A", "U+C74B", "U+C74C", "U+C74D", "U+C74E", "U+C74F", "U+C750",
      "U+C751", "U+C752", "U+C753", "U+C754", "U+C755", "U+C756", "U+C757",
      "U+C758", "U+C759", "U+C75A", "U+C75B", "U+C75C", "U+C75D", "U+C75E",
      "U+C75F", "U+C760", "U+C761", "U+C762", "U+C763", "U+C764", "U+C765",
      "U+C766", "U+C767", "U+C768", "U+C769", "U+C76A", "U+C76B", "U+C76C",
      "U+C76D", "U+C76E", "U+C76F", "U+C770", "U+C771", "U+C772", "U+C773",
      "U+C774", "U+C775", "U+C776", "U+C777", "U+C778", "U+C779", "U+C77A",
      "U+C77B", "U+C77C", "U+C77D", "U+C77E", "U+C77F", "U+C780", "U+C781",
      "U+C782", "U+C783", "U+C784", "U+C785", "U+C786", "U+C787", "U+C788",
      "U+C789", "U+C78A", "U+C78B", "U+C78C", "U+C78D", "U+C78E", "U+C78F",
      "U+C790", "U+C791", "U+C792", "U+C793", "U+C794", "U+C795", "U+C796",
      "U+C797", "U+C798", "U+C799", "U+C79A", "U+C79B", "U+C79C", "U+C79D",
      "U+C79E", "U+C79F", "U+C7A0", "U+C7A1", "U+C7A2", "U+C7A3", "U+C7A4",
      "U+C7A5", "U+C7A6", "U+C7A7", "U+C7A8", "U+C7A9", "U+C7AA", "U+C7AB",
      "U+C7AC", "U+C7AD", "U+C7AE", "U+C7AF", "U+C7B0", "U+C7B1", "U+C7B2",
      "U+C7B3", "U+C7B4", "U+C7B5", "U+C7B6", "U+C7B7", "U+C7B8", "U+C7B9",
      "U+C7BA", "U+C7BB", "U+C7BC", "U+C7BD", "U+C7BE", "U+C7BF", "U+C7C0",
      "U+C7C1", "U+C7C2", "U+C7C3", "U+C7C4", "U+C7C5", "U+C7C6", "U+C7C7",
      "U+C7C8", "U+C7C9", "U+C7CA", "U+C7CB", "U+C7CC", "U+C7CD", "U+C7CE",
      "U+C7CF", "U+C7D0", "U+C7D1", "U+C7D2", "U+C7D3", "U+C7D4", "U+C7D5",
      "U+C7D6", "U+C7D7", "U+C7D8", "U+C7D9", "U+C7DA", "U+C7DB", "U+C7DC",
      "U+C7DD", "U+C7DE", "U+C7DF", "U+C7E0", "U+C7E1", "U+C7E2", "U+C7E3",
      "U+C7E4", "U+C7E5", "U+C7E6", "U+C7E7", "U+C7E8", "U+C7E9", "U+C7EA",
      "U+C7EB", "U+C7EC", "U+C7ED", "U+C7EE", "U+C7EF", "U+C7F0", "U+C7F1",
      "U+C7F2", "U+C7F3", "U+C7F4", "U+C7F5", "U+C7F6", "U+C7F7", "U+C7F8",
      "U+C7F9", "U+C7FA", "U+C7FB", "U+C7FC", "U+C7FD", "U+C7FE", "U+C7FF",
      "U+C800", "U+C801", "U+C802", "U+C803", "U+C804", "U+C805", "U+C806",
      "U+C807", "U+C808", "U+C809", "U+C80A", "U+C80B", "U+C80C", "U+C80D",
      "U+C80E", "U+C80F", "U+C810", "U+C811", "U+C812", "U+C813", "U+C814",
      "U+C815", "U+C816", "U+C817", "U+C818", "U+C819", "U+C81A", "U+C81B",
      "U+C81C", "U+C81D", "U+C81E", "U+C81F", "U+C820", "U+C821", "U+C822",
      "U+C823", "U+C824", "U+C825", "U+C826", "U+C827", "U+C828", "U+C829",
      "U+C82A", "U+C82B", "U+C82C", "U+C82D", "U+C82E", "U+C82F", "U+C830",
      "U+C831", "U+C832", "U+C833", "U+C834", "U+C835", "U+C836", "U+C837",
      "U+C838", "U+C839", "U+C83A", "U+C83B", "U+C83C", "U+C83D", "U+C83E",
      "U+C83F", "U+C840", "U+C841", "U+C842", "U+C843", "U+C844", "U+C845",
      "U+C846", "U+C847", "U+C848", "U+C849", "U+C84A", "U+C84B", "U+C84C",
      "U+C84D", "U+C84E", "U+C84F", "U+C850", "U+C851", "U+C852", "U+C853",
      "U+C854", "U+C855", "U+C856", "U+C857", "U+C858", "U+C859", "U+C85A",
      "U+C85B", "U+C85C", "U+C85D", "U+C85E", "U+C85F", "U+C860", "U+C861",
      "U+C862", "U+C863", "U+C864", "U+C865", "U+C866", "U+C867", "U+C868",
      "U+C869", "U+C86A", "U+C86B", "U+C86C", "U+C86D", "U+C86E", "U+C86F",
      "U+C870", "U+C871", "U+C872", "U+C873", "U+C874", "U+C875", "U+C876",
      "U+C877", "U+C878", "U+C879", "U+C87A", "U+C87B", "U+C87C", "U+C87D",
      "U+C87E", "U+C87F", "U+C880", "U+C881", "U+C882", "U+C883", "U+C884",
      "U+C885", "U+C886", "U+C887", "U+C888", "U+C889", "U+C88A", "U+C88B",
      "U+C88C", "U+C88D", "U+C88E", "U+C88F", "U+C890", "U+C891", "U+C892",
      "U+C893", "U+C894", "U+C895", "U+C896", "U+C897", "U+C898", "U+C899",
      "U+C89A", "U+C89B", "U+C89C", "U+C89D", "U+C89E", "U+C89F", "U+C8A0",
      "U+C8A1", "U+C8A2", "U+C8A3", "U+C8A4", "U+C8A5", "U+C8A6", "U+C8A7",
      "U+C8A8", "U+C8A9", "U+C8AA", "U+C8AB", "U+C8AC", "U+C8AD", "U+C8AE",
      "U+C8AF", "U+C8B0", "U+C8B1", "U+C8B2", "U+C8B3", "U+C8B4", "U+C8B5",
      "U+C8B6", "U+C8B7", "U+C8B8", "U+C8B9", "U+C8BA", "U+C8BB", "U+C8BC",
      "U+C8BD", "U+C8BE", "U+C8BF", "U+C8C0", "U+C8C1", "U+C8C2", "U+C8C3",
      "U+C8C4", "U+C8C5", "U+C8C6", "U+C8C7", "U+C8C8", "U+C8C9", "U+C8CA",
      "U+C8CB", "U+C8CC", "U+C8CD", "U+C8CE", "U+C8CF", "U+C8D0", "U+C8D1",
      "U+C8D2", "U+C8D3", "U+C8D4", "U+C8D5", "U+C8D6", "U+C8D7", "U+C8D8",
      "U+C8D9", "U+C8DA", "U+C8DB", "U+C8DC", "U+C8DD", "U+C8DE", "U+C8DF",
      "U+C8E0", "U+C8E1", "U+C8E2", "U+C8E3", "U+C8E4", "U+C8E5", "U+C8E6",
      "U+C8E7", "U+C8E8", "U+C8E9", "U+C8EA", "U+C8EB", "U+C8EC", "U+C8ED",
      "U+C8EE", "U+C8EF", "U+C8F0", "U+C8F1", "U+C8F2", "U+C8F3", "U+C8F4",
      "U+C8F5", "U+C8F6", "U+C8F7", "U+C8F8", "U+C8F9", "U+C8FA", "U+C8FB",
      "U+C8FC", "U+C8FD", "U+C8FE", "U+C8FF", "U+C900", "U+C901", "U+C902",
      "U+C903", "U+C904", "U+C905", "U+C906", "U+C907", "U+C908", "U+C909",
      "U+C90A", "U+C90B", "U+C90C", "U+C90D", "U+C90E", "U+C90F", "U+C910",
      "U+C911", "U+C912", "U+C913", "U+C914", "U+C915", "U+C916", "U+C917",
      "U+C918", "U+C919", "U+C91A", "U+C91B", "U+C91C", "U+C91D", "U+C91E",
      "U+C91F", "U+C920", "U+C921", "U+C922", "U+C923", "U+C924", "U+C925",
      "U+C926", "U+C927", "U+C928", "U+C929", "U+C92A", "U+C92B", "U+C92C",
      "U+C92D", "U+C92E", "U+C92F", "U+C930", "U+C931", "U+C932", "U+C933",
      "U+C934", "U+C935", "U+C936", "U+C937", "U+C938", "U+C939", "U+C93A",
      "U+C93B", "U+C93C", "U+C93D", "U+C93E", "U+C93F", "U+C940", "U+C941",
      "U+C942", "U+C943", "U+C944", "U+C945", "U+C946", "U+C947", "U+C948",
      "U+C949", "U+C94A", "U+C94B", "U+C94C", "U+C94D", "U+C94E", "U+C94F",
      "U+C950", "U+C951", "U+C952", "U+C953", "U+C954", "U+C955", "U+C956",
      "U+C957", "U+C958", "U+C959", "U+C95A", "U+C95B", "U+C95C", "U+C95D",
      "U+C95E", "U+C95F", "U+C960", "U+C961", "U+C962", "U+C963", "U+C964",
      "U+C965", "U+C966", "U+C967", "U+C968", "U+C969", "U+C96A", "U+C96B",
      "U+C96C", "U+C96D", "U+C96E", "U+C96F", "U+C970", "U+C971", "U+C972",
      "U+C973", "U+C974", "U+C975", "U+C976", "U+C977", "U+C978", "U+C979",
      "U+C97A", "U+C97B", "U+C97C", "U+C97D", "U+C97E", "U+C97F", "U+C980",
      "U+C981", "U+C982", "U+C983", "U+C984", "U+C985", "U+C986", "U+C987",
      "U+C988", "U+C989", "U+C98A", "U+C98B", "U+C98C", "U+C98D", "U+C98E",
      "U+C98F", "U+C990", "U+C991", "U+C992", "U+C993", "U+C994", "U+C995",
      "U+C996", "U+C997", "U+C998", "U+C999", "U+C99A", "U+C99B", "U+C99C",
      "U+C99D", "U+C99E", "U+C99F", "U+C9A0", "U+C9A1", "U+C9A2", "U+C9A3",
      "U+C9A4", "U+C9A5", "U+C9A6", "U+C9A7", "U+C9A8", "U+C9A9", "U+C9AA",
      "U+C9AB", "U+C9AC", "U+C9AD", "U+C9AE", "U+C9AF", "U+C9B0", "U+C9B1",
      "U+C9B2", "U+C9B3", "U+C9B4", "U+C9B5", "U+C9B6", "U+C9B7", "U+C9B8",
      "U+C9B9", "U+C9BA", "U+C9BB", "U+C9BC", "U+C9BD", "U+C9BE", "U+C9BF",
      "U+C9C0", "U+C9C1", "U+C9C2", "U+C9C3", "U+C9C4", "U+C9C5", "U+C9C6",
      "U+C9C7", "U+C9C8", "U+C9C9", "U+C9CA", "U+C9CB", "U+C9CC", "U+C9CD",
      "U+C9CE", "U+C9CF", "U+C9D0", "U+C9D1", "U+C9D2", "U+C9D3", "U+C9D4",
      "U+C9D5", "U+C9D6", "U+C9D7", "U+C9D8", "U+C9D9", "U+C9DA", "U+C9DB",
      "U+C9DC", "U+C9DD", "U+C9DE", "U+C9DF", "U+C9E0", "U+C9E1", "U+C9E2",
      "U+C9E3", "U+C9E4", "U+C9E5", "U+C9E6", "U+C9E7", "U+C9E8", "U+C9E9",
      "U+C9EA", "U+C9EB", "U+C9EC", "U+C9ED", "U+C9EE", "U+C9EF", "U+C9F0",
      "U+C9F1", "U+C9F2", "U+C9F3", "U+C9F4", "U+C9F5", "U+C9F6", "U+C9F7",
      "U+C9F8", "U+C9F9", "U+C9FA", "U+C9FB", "U+C9FC", "U+C9FD", "U+C9FE",
      "U+C9FF", "U+CA00", "U+CA01", "U+CA02", "U+CA03", "U+CA04", "U+CA05",
      "U+CA06", "U+CA07", "U+CA08", "U+CA09", "U+CA0A", "U+CA0B", "U+CA0C",
      "U+CA0D", "U+CA0E", "U+CA0F", "U+CA10", "U+CA11", "U+CA12", "U+CA13",
      "U+CA14", "U+CA15", "U+CA16", "U+CA17", "U+CA18", "U+CA19", "U+CA1A",
      "U+CA1B", "U+CA1C", "U+CA1D", "U+CA1E", "U+CA1F", "U+CA20", "U+CA21",
      "U+CA22", "U+CA23", "U+CA24", "U+CA25", "U+CA26", "U+CA27", "U+CA28",
      "U+CA29", "U+CA2A", "U+CA2B", "U+CA2C", "U+CA2D", "U+CA2E", "U+CA2F",
      "U+CA30", "U+CA31", "U+CA32", "U+CA33", "U+CA34", "U+CA35", "U+CA36",
      "U+CA37", "U+CA38", "U+CA39", "U+CA3A", "U+CA3B", "U+CA3C", "U+CA3D",
      "U+CA3E", "U+CA3F", "U+CA40", "U+CA41", "U+CA42", "U+CA43", "U+CA44",
      "U+CA45", "U+CA46", "U+CA47", "U+CA48", "U+CA49", "U+CA4A", "U+CA4B",
      "U+CA4C", "U+CA4D", "U+CA4E", "U+CA4F", "U+CA50", "U+CA51", "U+CA52",
      "U+CA53", "U+CA54", "U+CA55", "U+CA56", "U+CA57", "U+CA58", "U+CA59",
      "U+CA5A", "U+CA5B", "U+CA5C", "U+CA5D", "U+CA5E", "U+CA5F", "U+CA60",
      "U+CA61", "U+CA62", "U+CA63", "U+CA64", "U+CA65", "U+CA66", "U+CA67",
      "U+CA68", "U+CA69", "U+CA6A", "U+CA6B", "U+CA6C", "U+CA6D", "U+CA6E",
      "U+CA6F", "U+CA70", "U+CA71", "U+CA72", "U+CA73", "U+CA74", "U+CA75",
      "U+CA76", "U+CA77", "U+CA78", "U+CA79", "U+CA7A", "U+CA7B", "U+CA7C",
      "U+CA7D", "U+CA7E", "U+CA7F", "U+CA80", "U+CA81", "U+CA82", "U+CA83",
      "U+CA84", "U+CA85", "U+CA86", "U+CA87", "U+CA88", "U+CA89", "U+CA8A",
      "U+CA8B", "U+CA8C", "U+CA8D", "U+CA8E", "U+CA8F", "U+CA90", "U+CA91",
      "U+CA92", "U+CA93", "U+CA94", "U+CA95", "U+CA96", "U+CA97", "U+CA98",
      "U+CA99", "U+CA9A", "U+CA9B", "U+CA9C", "U+CA9D", "U+CA9E", "U+CA9F",
      "U+CAA0", "U+CAA1", "U+CAA2", "U+CAA3", "U+CAA4", "U+CAA5", "U+CAA6",
      "U+CAA7", "U+CAA8", "U+CAA9", "U+CAAA", "U+CAAB", "U+CAAC", "U+CAAD",
      "U+CAAE", "U+CAAF", "U+CAB0", "U+CAB1", "U+CAB2", "U+CAB3", "U+CAB4",
      "U+CAB5", "U+CAB6", "U+CAB7", "U+CAB8", "U+CAB9", "U+CABA", "U+CABB",
      "U+CABC", "U+CABD", "U+CABE", "U+CABF", "U+CAC0", "U+CAC1", "U+CAC2",
      "U+CAC3", "U+CAC4", "U+CAC5", "U+CAC6", "U+CAC7", "U+CAC8", "U+CAC9",
      "U+CACA", "U+CACB", "U+CACC", "U+CACD", "U+CACE", "U+CACF", "U+CAD0",
      "U+CAD1", "U+CAD2", "U+CAD3", "U+CAD4", "U+CAD5", "U+CAD6", "U+CAD7",
      "U+CAD8", "U+CAD9", "U+CADA", "U+CADB", "U+CADC", "U+CADD", "U+CADE",
      "U+CADF", "U+CAE0", "U+CAE1", "U+CAE2", "U+CAE3", "U+CAE4", "U+CAE5",
      "U+CAE6", "U+CAE7", "U+CAE8", "U+CAE9", "U+CAEA", "U+CAEB", "U+CAEC",
      "U+CAED", "U+CAEE", "U+CAEF", "U+CAF0", "U+CAF1", "U+CAF2", "U+CAF3",
      "U+CAF4", "U+CAF5", "U+CAF6", "U+CAF7", "U+CAF8", "U+CAF9", "U+CAFA",
      "U+CAFB", "U+CAFC", "U+CAFD", "U+CAFE", "U+CAFF", "U+CB00", "U+CB01",
      "U+CB02", "U+CB03", "U+CB04", "U+CB05", "U+CB06", "U+CB07", "U+CB08",
      "U+CB09", "U+CB0A", "U+CB0B", "U+CB0C", "U+CB0D", "U+CB0E", "U+CB0F",
      "U+CB10", "U+CB11", "U+CB12", "U+CB13", "U+CB14", "U+CB15", "U+CB16",
      "U+CB17", "U+CB18", "U+CB19", "U+CB1A", "U+CB1B", "U+CB1C", "U+CB1D",
      "U+CB1E", "U+CB1F", "U+CB20", "U+CB21", "U+CB22", "U+CB23", "U+CB24",
      "U+CB25", "U+CB26", "U+CB27", "U+CB28", "U+CB29", "U+CB2A", "U+CB2B",
      "U+CB2C", "U+CB2D", "U+CB2E", "U+CB2F", "U+CB30", "U+CB31", "U+CB32",
      "U+CB33", "U+CB34", "U+CB35", "U+CB36", "U+CB37", "U+CB38", "U+CB39",
      "U+CB3A", "U+CB3B", "U+CB3C", "U+CB3D", "U+CB3E", "U+CB3F", "U+CB40",
      "U+CB41", "U+CB42", "U+CB43", "U+CB44", "U+CB45", "U+CB46", "U+CB47",
      "U+CB48", "U+CB49", "U+CB4A", "U+CB4B", "U+CB4C", "U+CB4D", "U+CB4E",
      "U+CB4F", "U+CB50", "U+CB51", "U+CB52", "U+CB53", "U+CB54", "U+CB55",
      "U+CB56", "U+CB57", "U+CB58", "U+CB59", "U+CB5A", "U+CB5B", "U+CB5C",
      "U+CB5D", "U+CB5E", "U+CB5F", "U+CB60", "U+CB61", "U+CB62", "U+CB63",
      "U+CB64", "U+CB65", "U+CB66", "U+CB67", "U+CB68", "U+CB69", "U+CB6A",
      "U+CB6B", "U+CB6C", "U+CB6D", "U+CB6E", "U+CB6F", "U+CB70", "U+CB71",
      "U+CB72", "U+CB73", "U+CB74", "U+CB75", "U+CB76", "U+CB77", "U+CB78",
      "U+CB79", "U+CB7A", "U+CB7B", "U+CB7C", "U+CB7D", "U+CB7E", "U+CB7F",
      "U+CB80", "U+CB81", "U+CB82", "U+CB83", "U+CB84", "U+CB85", "U+CB86",
      "U+CB87", "U+CB88", "U+CB89", "U+CB8A", "U+CB8B", "U+CB8C", "U+CB8D",
      "U+CB8E", "U+CB8F", "U+CB90", "U+CB91", "U+CB92", "U+CB93", "U+CB94",
      "U+CB95", "U+CB96", "U+CB97", "U+CB98", "U+CB99", "U+CB9A", "U+CB9B",
      "U+CB9C", "U+CB9D", "U+CB9E", "U+CB9F", "U+CBA0", "U+CBA1", "U+CBA2",
      "U+CBA3", "U+CBA4", "U+CBA5", "U+CBA6", "U+CBA7", "U+CBA8", "U+CBA9",
      "U+CBAA", "U+CBAB", "U+CBAC", "U+CBAD", "U+CBAE", "U+CBAF", "U+CBB0",
      "U+CBB1", "U+CBB2", "U+CBB3", "U+CBB4", "U+CBB5", "U+CBB6", "U+CBB7",
      "U+CBB8", "U+CBB9", "U+CBBA", "U+CBBB", "U+CBBC", "U+CBBD", "U+CBBE",
      "U+CBBF", "U+CBC0", "U+CBC1", "U+CBC2", "U+CBC3", "U+CBC4", "U+CBC5",
      "U+CBC6", "U+CBC7", "U+CBC8", "U+CBC9", "U+CBCA", "U+CBCB", "U+CBCC",
      "U+CBCD", "U+CBCE", "U+CBCF", "U+CBD0", "U+CBD1", "U+CBD2", "U+CBD3",
      "U+CBD4", "U+CBD5", "U+CBD6", "U+CBD7", "U+CBD8", "U+CBD9", "U+CBDA",
      "U+CBDB", "U+CBDC", "U+CBDD", "U+CBDE", "U+CBDF", "U+CBE0", "U+CBE1",
      "U+CBE2", "U+CBE3", "U+CBE4", "U+CBE5", "U+CBE6", "U+CBE7", "U+CBE8",
      "U+CBE9", "U+CBEA", "U+CBEB", "U+CBEC", "U+CBED", "U+CBEE", "U+CBEF",
      "U+CBF0", "U+CBF1", "U+CBF2", "U+CBF3", "U+CBF4", "U+CBF5", "U+CBF6",
      "U+CBF7", "U+CBF8", "U+CBF9", "U+CBFA", "U+CBFB", "U+CBFC", "U+CBFD",
      "U+CBFE", "U+CBFF", "U+CC00", "U+CC01", "U+CC02", "U+CC03", "U+CC04",
      "U+CC05", "U+CC06", "U+CC07", "U+CC08", "U+CC09", "U+CC0A", "U+CC0B",
      "U+CC0C", "U+CC0D", "U+CC0E", "U+CC0F", "U+CC10", "U+CC11", "U+CC12",
      "U+CC13", "U+CC14", "U+CC15", "U+CC16", "U+CC17", "U+CC18", "U+CC19",
      "U+CC1A", "U+CC1B", "U+CC1C", "U+CC1D", "U+CC1E", "U+CC1F", "U+CC20",
      "U+CC21", "U+CC22", "U+CC23", "U+CC24", "U+CC25", "U+CC26", "U+CC27",
      "U+CC28", "U+CC29", "U+CC2A", "U+CC2B", "U+CC2C", "U+CC2D", "U+CC2E",
      "U+CC2F", "U+CC30", "U+CC31", "U+CC32", "U+CC33", "U+CC34", "U+CC35",
      "U+CC36", "U+CC37", "U+CC38", "U+CC39", "U+CC3A", "U+CC3B", "U+CC3C",
      "U+CC3D", "U+CC3E", "U+CC3F", "U+CC40", "U+CC41", "U+CC42", "U+CC43",
      "U+CC44", "U+CC45", "U+CC46", "U+CC47", "U+CC48", "U+CC49", "U+CC4A",
      "U+CC4B", "U+CC4C", "U+CC4D", "U+CC4E", "U+CC4F", "U+CC50", "U+CC51",
      "U+CC52", "U+CC53", "U+CC54", "U+CC55", "U+CC56", "U+CC57", "U+CC58",
      "U+CC59", "U+CC5A", "U+CC5B", "U+CC5C", "U+CC5D", "U+CC5E", "U+CC5F",
      "U+CC60", "U+CC61", "U+CC62", "U+CC63", "U+CC64", "U+CC65", "U+CC66",
      "U+CC67", "U+CC68", "U+CC69", "U+CC6A", "U+CC6B", "U+CC6C", "U+CC6D",
      "U+CC6E", "U+CC6F", "U+CC70", "U+CC71", "U+CC72", "U+CC73", "U+CC74",
      "U+CC75", "U+CC76", "U+CC77", "U+CC78", "U+CC79", "U+CC7A", "U+CC7B",
      "U+CC7C", "U+CC7D", "U+CC7E", "U+CC7F", "U+CC80", "U+CC81", "U+CC82",
      "U+CC83", "U+CC84", "U+CC85", "U+CC86", "U+CC87", "U+CC88", "U+CC89",
      "U+CC8A", "U+CC8B", "U+CC8C", "U+CC8D", "U+CC8E", "U+CC8F", "U+CC90",
      "U+CC91", "U+CC92", "U+CC93", "U+CC94", "U+CC95", "U+CC96", "U+CC97",
      "U+CC98", "U+CC99", "U+CC9A", "U+CC9B", "U+CC9C", "U+CC9D", "U+CC9E",
      "U+CC9F", "U+CCA0", "U+CCA1", "U+CCA2", "U+CCA3", "U+CCA4", "U+CCA5",
      "U+CCA6", "U+CCA7", "U+CCA8", "U+CCA9", "U+CCAA", "U+CCAB", "U+CCAC",
      "U+CCAD", "U+CCAE", "U+CCAF", "U+CCB0", "U+CCB1", "U+CCB2", "U+CCB3",
      "U+CCB4", "U+CCB5", "U+CCB6", "U+CCB7", "U+CCB8", "U+CCB9", "U+CCBA",
      "U+CCBB", "U+CCBC", "U+CCBD", "U+CCBE", "U+CCBF", "U+CCC0", "U+CCC1",
      "U+CCC2", "U+CCC3", "U+CCC4", "U+CCC5", "U+CCC6", "U+CCC7", "U+CCC8",
      "U+CCC9", "U+CCCA", "U+CCCB", "U+CCCC", "U+CCCD", "U+CCCE", "U+CCCF",
      "U+CCD0", "U+CCD1", "U+CCD2", "U+CCD3", "U+CCD4", "U+CCD5", "U+CCD6",
      "U+CCD7", "U+CCD8", "U+CCD9", "U+CCDA", "U+CCDB", "U+CCDC", "U+CCDD",
      "U+CCDE", "U+CCDF", "U+CCE0", "U+CCE1", "U+CCE2", "U+CCE3", "U+CCE4",
      "U+CCE5", "U+CCE6", "U+CCE7", "U+CCE8", "U+CCE9", "U+CCEA", "U+CCEB",
      "U+CCEC", "U+CCED", "U+CCEE", "U+CCEF", "U+CCF0", "U+CCF1", "U+CCF2",
      "U+CCF3", "U+CCF4", "U+CCF5", "U+CCF6", "U+CCF7", "U+CCF8", "U+CCF9",
      "U+CCFA", "U+CCFB", "U+CCFC", "U+CCFD", "U+CCFE", "U+CCFF", "U+CD00",
      "U+CD01", "U+CD02", "U+CD03", "U+CD04", "U+CD05", "U+CD06", "U+CD07",
      "U+CD08", "U+CD09", "U+CD0A", "U+CD0B", "U+CD0C", "U+CD0D", "U+CD0E",
      "U+CD0F", "U+CD10", "U+CD11", "U+CD12", "U+CD13", "U+CD14", "U+CD15",
      "U+CD16", "U+CD17", "U+CD18", "U+CD19", "U+CD1A", "U+CD1B", "U+CD1C",
      "U+CD1D", "U+CD1E", "U+CD1F", "U+CD20", "U+CD21", "U+CD22", "U+CD23",
      "U+CD24", "U+CD25", "U+CD26", "U+CD27", "U+CD28", "U+CD29", "U+CD2A",
      "U+CD2B", "U+CD2C", "U+CD2D", "U+CD2E", "U+CD2F", "U+CD30", "U+CD31",
      "U+CD32", "U+CD33", "U+CD34", "U+CD35", "U+CD36", "U+CD37", "U+CD38",
      "U+CD39", "U+CD3A", "U+CD3B", "U+CD3C", "U+CD3D", "U+CD3E", "U+CD3F",
      "U+CD40", "U+CD41", "U+CD42", "U+CD43", "U+CD44", "U+CD45", "U+CD46",
      "U+CD47", "U+CD48", "U+CD49", "U+CD4A", "U+CD4B", "U+CD4C", "U+CD4D",
      "U+CD4E", "U+CD4F", "U+CD50", "U+CD51", "U+CD52", "U+CD53", "U+CD54",
      "U+CD55", "U+CD56", "U+CD57", "U+CD58", "U+CD59", "U+CD5A", "U+CD5B",
      "U+CD5C", "U+CD5D", "U+CD5E", "U+CD5F", "U+CD60", "U+CD61", "U+CD62",
      "U+CD63", "U+CD64", "U+CD65", "U+CD66", "U+CD67", "U+CD68", "U+CD69",
      "U+CD6A", "U+CD6B", "U+CD6C", "U+CD6D", "U+CD6E", "U+CD6F", "U+CD70",
      "U+CD71", "U+CD72", "U+CD73", "U+CD74", "U+CD75", "U+CD76", "U+CD77",
      "U+CD78", "U+CD79", "U+CD7A", "U+CD7B", "U+CD7C", "U+CD7D", "U+CD7E",
      "U+CD7F", "U+CD80", "U+CD81", "U+CD82", "U+CD83", "U+CD84", "U+CD85",
      "U+CD86", "U+CD87", "U+CD88", "U+CD89", "U+CD8A", "U+CD8B", "U+CD8C",
      "U+CD8D", "U+CD8E", "U+CD8F", "U+CD90", "U+CD91", "U+CD92", "U+CD93",
      "U+CD94", "U+CD95", "U+CD96", "U+CD97", "U+CD98", "U+CD99", "U+CD9A",
      "U+CD9B", "U+CD9C", "U+CD9D", "U+CD9E", "U+CD9F", "U+CDA0", "U+CDA1",
      "U+CDA2", "U+CDA3", "U+CDA4", "U+CDA5", "U+CDA6", "U+CDA7", "U+CDA8",
      "U+CDA9", "U+CDAA", "U+CDAB", "U+CDAC", "U+CDAD", "U+CDAE", "U+CDAF",
      "U+CDB0", "U+CDB1", "U+CDB2", "U+CDB3", "U+CDB4", "U+CDB5", "U+CDB6",
      "U+CDB7", "U+CDB8", "U+CDB9", "U+CDBA", "U+CDBB", "U+CDBC", "U+CDBD",
      "U+CDBE", "U+CDBF", "U+CDC0", "U+CDC1", "U+CDC2", "U+CDC3", "U+CDC4",
      "U+CDC5", "U+CDC6", "U+CDC7", "U+CDC8", "U+CDC9", "U+CDCA", "U+CDCB",
      "U+CDCC", "U+CDCD", "U+CDCE", "U+CDCF", "U+CDD0", "U+CDD1", "U+CDD2",
      "U+CDD3", "U+CDD4", "U+CDD5", "U+CDD6", "U+CDD7", "U+CDD8", "U+CDD9",
      "U+CDDA", "U+CDDB", "U+CDDC", "U+CDDD", "U+CDDE", "U+CDDF", "U+CDE0",
      "U+CDE1", "U+CDE2", "U+CDE3", "U+CDE4", "U+CDE5", "U+CDE6", "U+CDE7",
      "U+CDE8", "U+CDE9", "U+CDEA", "U+CDEB", "U+CDEC", "U+CDED", "U+CDEE",
      "U+CDEF", "U+CDF0", "U+CDF1", "U+CDF2", "U+CDF3", "U+CDF4", "U+CDF5",
      "U+CDF6", "U+CDF7", "U+CDF8", "U+CDF9", "U+CDFA", "U+CDFB", "U+CDFC",
      "U+CDFD", "U+CDFE", "U+CDFF", "U+CE00", "U+CE01", "U+CE02", "U+CE03",
      "U+CE04", "U+CE05", "U+CE06", "U+CE07", "U+CE08", "U+CE09", "U+CE0A",
      "U+CE0B", "U+CE0C", "U+CE0D", "U+CE0E", "U+CE0F", "U+CE10", "U+CE11",
      "U+CE12", "U+CE13", "U+CE14", "U+CE15", "U+CE16", "U+CE17", "U+CE18",
      "U+CE19", "U+CE1A", "U+CE1B", "U+CE1C", "U+CE1D", "U+CE1E", "U+CE1F",
      "U+CE20", "U+CE21", "U+CE22", "U+CE23", "U+CE24", "U+CE25", "U+CE26",
      "U+CE27", "U+CE28", "U+CE29", "U+CE2A", "U+CE2B", "U+CE2C", "U+CE2D",
      "U+CE2E", "U+CE2F", "U+CE30", "U+CE31", "U+CE32", "U+CE33", "U+CE34",
      "U+CE35", "U+CE36", "U+CE37", "U+CE38", "U+CE39", "U+CE3A", "U+CE3B",
      "U+CE3C", "U+CE3D", "U+CE3E", "U+CE3F", "U+CE40", "U+CE41", "U+CE42",
      "U+CE43", "U+CE44", "U+CE45", "U+CE46", "U+CE47", "U+CE48", "U+CE49",
      "U+CE4A", "U+CE4B", "U+CE4C", "U+CE4D", "U+CE4E", "U+CE4F", "U+CE50",
      "U+CE51", "U+CE52", "U+CE53", "U+CE54", "U+CE55", "U+CE56", "U+CE57",
      "U+CE58", "U+CE59", "U+CE5A", "U+CE5B", "U+CE5C", "U+CE5D", "U+CE5E",
      "U+CE5F", "U+CE60", "U+CE61", "U+CE62", "U+CE63", "U+CE64", "U+CE65",
      "U+CE66", "U+CE67", "U+CE68", "U+CE69", "U+CE6A", "U+CE6B", "U+CE6C",
      "U+CE6D", "U+CE6E", "U+CE6F", "U+CE70", "U+CE71", "U+CE72", "U+CE73",
      "U+CE74", "U+CE75", "U+CE76", "U+CE77", "U+CE78", "U+CE79", "U+CE7A",
      "U+CE7B", "U+CE7C", "U+CE7D", "U+CE7E", "U+CE7F", "U+CE80", "U+CE81",
      "U+CE82", "U+CE83", "U+CE84", "U+CE85", "U+CE86", "U+CE87", "U+CE88",
      "U+CE89", "U+CE8A", "U+CE8B", "U+CE8C", "U+CE8D", "U+CE8E", "U+CE8F",
      "U+CE90", "U+CE91", "U+CE92", "U+CE93", "U+CE94", "U+CE95", "U+CE96",
      "U+CE97", "U+CE98", "U+CE99", "U+CE9A", "U+CE9B", "U+CE9C", "U+CE9D",
      "U+CE9E", "U+CE9F", "U+CEA0", "U+CEA1", "U+CEA2", "U+CEA3", "U+CEA4",
      "U+CEA5", "U+CEA6", "U+CEA7", "U+CEA8", "U+CEA9", "U+CEAA", "U+CEAB",
      "U+CEAC", "U+CEAD", "U+CEAE", "U+CEAF", "U+CEB0", "U+CEB1", "U+CEB2",
      "U+CEB3", "U+CEB4", "U+CEB5", "U+CEB6", "U+CEB7", "U+CEB8", "U+CEB9",
      "U+CEBA", "U+CEBB", "U+CEBC", "U+CEBD", "U+CEBE", "U+CEBF", "U+CEC0",
      "U+CEC1", "U+CEC2", "U+CEC3", "U+CEC4", "U+CEC5", "U+CEC6", "U+CEC7",
      "U+CEC8", "U+CEC9", "U+CECA", "U+CECB", "U+CECC", "U+CECD", "U+CECE",
      "U+CECF", "U+CED0", "U+CED1", "U+CED2", "U+CED3", "U+CED4", "U+CED5",
      "U+CED6", "U+CED7", "U+CED8", "U+CED9", "U+CEDA", "U+CEDB", "U+CEDC",
      "U+CEDD", "U+CEDE", "U+CEDF", "U+CEE0", "U+CEE1", "U+CEE2", "U+CEE3",
      "U+CEE4", "U+CEE5", "U+CEE6", "U+CEE7", "U+CEE8", "U+CEE9", "U+CEEA",
      "U+CEEB", "U+CEEC", "U+CEED", "U+CEEE", "U+CEEF", "U+CEF0", "U+CEF1",
      "U+CEF2", "U+CEF3", "U+CEF4", "U+CEF5", "U+CEF6", "U+CEF7", "U+CEF8",
      "U+CEF9", "U+CEFA", "U+CEFB", "U+CEFC", "U+CEFD", "U+CEFE", "U+CEFF",
      "U+CF00", "U+CF01", "U+CF02", "U+CF03", "U+CF04", "U+CF05", "U+CF06",
      "U+CF07", "U+CF08", "U+CF09", "U+CF0A", "U+CF0B", "U+CF0C", "U+CF0D",
      "U+CF0E", "U+CF0F", "U+CF10", "U+CF11", "U+CF12", "U+CF13", "U+CF14",
      "U+CF15", "U+CF16", "U+CF17", "U+CF18", "U+CF19", "U+CF1A", "U+CF1B",
      "U+CF1C", "U+CF1D", "U+CF1E", "U+CF1F", "U+CF20", "U+CF21", "U+CF22",
      "U+CF23", "U+CF24", "U+CF25", "U+CF26", "U+CF27", "U+CF28", "U+CF29",
      "U+CF2A", "U+CF2B", "U+CF2C", "U+CF2D", "U+CF2E", "U+CF2F", "U+CF30",
      "U+CF31", "U+CF32", "U+CF33", "U+CF34", "U+CF35", "U+CF36", "U+CF37",
      "U+CF38", "U+CF39", "U+CF3A", "U+CF3B", "U+CF3C", "U+CF3D", "U+CF3E",
      "U+CF3F", "U+CF40", "U+CF41", "U+CF42", "U+CF43", "U+CF44", "U+CF45",
      "U+CF46", "U+CF47", "U+CF48", "U+CF49", "U+CF4A", "U+CF4B", "U+CF4C",
      "U+CF4D", "U+CF4E", "U+CF4F", "U+CF50", "U+CF51", "U+CF52", "U+CF53",
      "U+CF54", "U+CF55", "U+CF56", "U+CF57", "U+CF58", "U+CF59", "U+CF5A",
      "U+CF5B", "U+CF5C", "U+CF5D", "U+CF5E", "U+CF5F", "U+CF60", "U+CF61",
      "U+CF62", "U+CF63", "U+CF64", "U+CF65", "U+CF66", "U+CF67", "U+CF68",
      "U+CF69", "U+CF6A", "U+CF6B", "U+CF6C", "U+CF6D", "U+CF6E", "U+CF6F",
      "U+CF70", "U+CF71", "U+CF72", "U+CF73", "U+CF74", "U+CF75", "U+CF76",
      "U+CF77", "U+CF78", "U+CF79", "U+CF7A", "U+CF7B", "U+CF7C", "U+CF7D",
      "U+CF7E", "U+CF7F", "U+CF80", "U+CF81", "U+CF82", "U+CF83", "U+CF84",
      "U+CF85", "U+CF86", "U+CF87", "U+CF88", "U+CF89", "U+CF8A", "U+CF8B",
      "U+CF8C", "U+CF8D", "U+CF8E", "U+CF8F", "U+CF90", "U+CF91", "U+CF92",
      "U+CF93", "U+CF94", "U+CF95", "U+CF96", "U+CF97", "U+CF98", "U+CF99",
      "U+CF9A", "U+CF9B", "U+CF9C", "U+CF9D", "U+CF9E", "U+CF9F", "U+CFA0",
      "U+CFA1", "U+CFA2", "U+CFA3", "U+CFA4", "U+CFA5", "U+CFA6", "U+CFA7",
      "U+CFA8", "U+CFA9", "U+CFAA", "U+CFAB", "U+CFAC", "U+CFAD", "U+CFAE",
      "U+CFAF", "U+CFB0", "U+CFB1", "U+CFB2", "U+CFB3", "U+CFB4", "U+CFB5",
      "U+CFB6", "U+CFB7", "U+CFB8", "U+CFB9", "U+CFBA", "U+CFBB", "U+CFBC",
      "U+CFBD", "U+CFBE", "U+CFBF", "U+CFC0", "U+CFC1", "U+CFC2", "U+CFC3",
      "U+CFC4", "U+CFC5", "U+CFC6", "U+CFC7", "U+CFC8", "U+CFC9", "U+CFCA",
      "U+CFCB", "U+CFCC", "U+CFCD", "U+CFCE", "U+CFCF", "U+CFD0", "U+CFD1",
      "U+CFD2", "U+CFD3", "U+CFD4", "U+CFD5", "U+CFD6", "U+CFD7", "U+CFD8",
      "U+CFD9", "U+CFDA", "U+CFDB", "U+CFDC", "U+CFDD", "U+CFDE", "U+CFDF",
      "U+CFE0", "U+CFE1", "U+CFE2", "U+CFE3", "U+CFE4", "U+CFE5", "U+CFE6",
      "U+CFE7", "U+CFE8", "U+CFE9", "U+CFEA", "U+CFEB", "U+CFEC", "U+CFED",
      "U+CFEE", "U+CFEF", "U+CFF0", "U+CFF1", "U+CFF2", "U+CFF3", "U+CFF4",
      "U+CFF5", "U+CFF6", "U+CFF7", "U+CFF8", "U+CFF9", "U+CFFA", "U+CFFB",
      "U+CFFC", "U+CFFD", "U+CFFE", "U+CFFF", "U+D000", "U+D001", "U+D002",
      "U+D003", "U+D004", "U+D005", "U+D006", "U+D007", "U+D008", "U+D009",
      "U+D00A", "U+D00B", "U+D00C", "U+D00D", "U+D00E", "U+D00F", "U+D010",
      "U+D011", "U+D012", "U+D013", "U+D014", "U+D015", "U+D016", "U+D017",
      "U+D018", "U+D019", "U+D01A", "U+D01B", "U+D01C", "U+D01D", "U+D01E",
      "U+D01F", "U+D020", "U+D021", "U+D022", "U+D023", "U+D024", "U+D025",
      "U+D026", "U+D027", "U+D028", "U+D029", "U+D02A", "U+D02B", "U+D02C",
      "U+D02D", "U+D02E", "U+D02F", "U+D030", "U+D031", "U+D032", "U+D033",
      "U+D034", "U+D035", "U+D036", "U+D037", "U+D038", "U+D039", "U+D03A",
      "U+D03B", "U+D03C", "U+D03D", "U+D03E", "U+D03F", "U+D040", "U+D041",
      "U+D042", "U+D043", "U+D044", "U+D045", "U+D046", "U+D047", "U+D048",
      "U+D049", "U+D04A", "U+D04B", "U+D04C", "U+D04D", "U+D04E", "U+D04F",
      "U+D050", "U+D051", "U+D052", "U+D053", "U+D054", "U+D055", "U+D056",
      "U+D057", "U+D058", "U+D059", "U+D05A", "U+D05B", "U+D05C", "U+D05D",
      "U+D05E", "U+D05F", "U+D060", "U+D061", "U+D062", "U+D063", "U+D064",
      "U+D065", "U+D066", "U+D067", "U+D068", "U+D069", "U+D06A", "U+D06B",
      "U+D06C", "U+D06D", "U+D06E", "U+D06F", "U+D070", "U+D071", "U+D072",
      "U+D073", "U+D074", "U+D075", "U+D076", "U+D077", "U+D078", "U+D079",
      "U+D07A", "U+D07B", "U+D07C", "U+D07D", "U+D07E", "U+D07F", "U+D080",
      "U+D081", "U+D082", "U+D083", "U+D084", "U+D085", "U+D086", "U+D087",
      "U+D088", "U+D089", "U+D08A", "U+D08B", "U+D08C", "U+D08D", "U+D08E",
      "U+D08F", "U+D090", "U+D091", "U+D092", "U+D093", "U+D094", "U+D095",
      "U+D096", "U+D097", "U+D098", "U+D099", "U+D09A", "U+D09B", "U+D09C",
      "U+D09D", "U+D09E", "U+D09F", "U+D0A0", "U+D0A1", "U+D0A2", "U+D0A3",
      "U+D0A4", "U+D0A5", "U+D0A6", "U+D0A7", "U+D0A8", "U+D0A9", "U+D0AA",
      "U+D0AB", "U+D0AC", "U+D0AD", "U+D0AE", "U+D0AF", "U+D0B0", "U+D0B1",
      "U+D0B2", "U+D0B3", "U+D0B4", "U+D0B5", "U+D0B6", "U+D0B7", "U+D0B8",
      "U+D0B9", "U+D0BA", "U+D0BB", "U+D0BC", "U+D0BD", "U+D0BE", "U+D0BF",
      "U+D0C0", "U+D0C1", "U+D0C2", "U+D0C3", "U+D0C4", "U+D0C5", "U+D0C6",
      "U+D0C7", "U+D0C8", "U+D0C9", "U+D0CA", "U+D0CB", "U+D0CC", "U+D0CD",
      "U+D0CE", "U+D0CF", "U+D0D0", "U+D0D1", "U+D0D2", "U+D0D3", "U+D0D4",
      "U+D0D5", "U+D0D6", "U+D0D7", "U+D0D8", "U+D0D9", "U+D0DA", "U+D0DB",
      "U+D0DC", "U+D0DD", "U+D0DE", "U+D0DF", "U+D0E0", "U+D0E1", "U+D0E2",
      "U+D0E3", "U+D0E4", "U+D0E5", "U+D0E6", "U+D0E7", "U+D0E8", "U+D0E9",
      "U+D0EA", "U+D0EB", "U+D0EC", "U+D0ED", "U+D0EE", "U+D0EF", "U+D0F0",
      "U+D0F1", "U+D0F2", "U+D0F3", "U+D0F4", "U+D0F5", "U+D0F6", "U+D0F7",
      "U+D0F8", "U+D0F9", "U+D0FA", "U+D0FB", "U+D0FC", "U+D0FD", "U+D0FE",
      "U+D0FF", "U+D100", "U+D101", "U+D102", "U+D103", "U+D104", "U+D105",
      "U+D106", "U+D107", "U+D108", "U+D109", "U+D10A", "U+D10B", "U+D10C",
      "U+D10D", "U+D10E", "U+D10F", "U+D110", "U+D111", "U+D112", "U+D113",
      "U+D114", "U+D115", "U+D116", "U+D117", "U+D118", "U+D119", "U+D11A",
      "U+D11B", "U+D11C", "U+D11D", "U+D11E", "U+D11F", "U+D120", "U+D121",
      "U+D122", "U+D123", "U+D124", "U+D125", "U+D126", "U+D127", "U+D128",
      "U+D129", "U+D12A", "U+D12B", "U+D12C", "U+D12D", "U+D12E", "U+D12F",
      "U+D130", "U+D131", "U+D132", "U+D133", "U+D134", "U+D135", "U+D136",
      "U+D137", "U+D138", "U+D139", "U+D13A", "U+D13B", "U+D13C", "U+D13D",
      "U+D13E", "U+D13F", "U+D140", "U+D141", "U+D142", "U+D143", "U+D144",
      "U+D145", "U+D146", "U+D147", "U+D148", "U+D149", "U+D14A", "U+D14B",
      "U+D14C", "U+D14D", "U+D14E", "U+D14F", "U+D150", "U+D151", "U+D152",
      "U+D153", "U+D154", "U+D155", "U+D156", "U+D157", "U+D158", "U+D159",
      "U+D15A", "U+D15B", "U+D15C", "U+D15D", "U+D15E", "U+D15F", "U+D160",
      "U+D161", "U+D162", "U+D163", "U+D164", "U+D165", "U+D166", "U+D167",
      "U+D168", "U+D169", "U+D16A", "U+D16B", "U+D16C", "U+D16D", "U+D16E",
      "U+D16F", "U+D170", "U+D171", "U+D172", "U+D173", "U+D174", "U+D175",
      "U+D176", "U+D177", "U+D178", "U+D179", "U+D17A", "U+D17B", "U+D17C",
      "U+D17D", "U+D17E", "U+D17F", "U+D180", "U+D181", "U+D182", "U+D183",
      "U+D184", "U+D185", "U+D186", "U+D187", "U+D188", "U+D189", "U+D18A",
      "U+D18B", "U+D18C", "U+D18D", "U+D18E", "U+D18F", "U+D190", "U+D191",
      "U+D192", "U+D193", "U+D194", "U+D195", "U+D196", "U+D197", "U+D198",
      "U+D199", "U+D19A", "U+D19B", "U+D19C", "U+D19D", "U+D19E", "U+D19F",
      "U+D1A0", "U+D1A1", "U+D1A2", "U+D1A3", "U+D1A4", "U+D1A5", "U+D1A6",
      "U+D1A7", "U+D1A8", "U+D1A9", "U+D1AA", "U+D1AB", "U+D1AC", "U+D1AD",
      "U+D1AE", "U+D1AF", "U+D1B0", "U+D1B1", "U+D1B2", "U+D1B3", "U+D1B4",
      "U+D1B5", "U+D1B6", "U+D1B7", "U+D1B8", "U+D1B9", "U+D1BA", "U+D1BB",
      "U+D1BC", "U+D1BD", "U+D1BE", "U+D1BF", "U+D1C0", "U+D1C1", "U+D1C2",
      "U+D1C3", "U+D1C4", "U+D1C5", "U+D1C6", "U+D1C7", "U+D1C8", "U+D1C9",
      "U+D1CA", "U+D1CB", "U+D1CC", "U+D1CD", "U+D1CE", "U+D1CF", "U+D1D0",
      "U+D1D1", "U+D1D2", "U+D1D3", "U+D1D4", "U+D1D5", "U+D1D6", "U+D1D7",
      "U+D1D8", "U+D1D9", "U+D1DA", "U+D1DB", "U+D1DC", "U+D1DD", "U+D1DE",
      "U+D1DF", "U+D1E0", "U+D1E1", "U+D1E2", "U+D1E3", "U+D1E4", "U+D1E5",
      "U+D1E6", "U+D1E7", "U+D1E8", "U+D1E9", "U+D1EA", "U+D1EB", "U+D1EC",
      "U+D1ED", "U+D1EE", "U+D1EF", "U+D1F0", "U+D1F1", "U+D1F2", "U+D1F3",
      "U+D1F4", "U+D1F5", "U+D1F6", "U+D1F7", "U+D1F8", "U+D1F9", "U+D1FA",
      "U+D1FB", "U+D1FC", "U+D1FD", "U+D1FE", "U+D1FF", "U+D200", "U+D201",
      "U+D202", "U+D203", "U+D204", "U+D205", "U+D206", "U+D207", "U+D208",
      "U+D209", "U+D20A", "U+D20B", "U+D20C", "U+D20D", "U+D20E", "U+D20F",
      "U+D210", "U+D211", "U+D212", "U+D213", "U+D214", "U+D215", "U+D216",
      "U+D217", "U+D218", "U+D219", "U+D21A", "U+D21B", "U+D21C", "U+D21D",
      "U+D21E", "U+D21F", "U+D220", "U+D221", "U+D222", "U+D223", "U+D224",
      "U+D225", "U+D226", "U+D227", "U+D228", "U+D229", "U+D22A", "U+D22B",
      "U+D22C", "U+D22D", "U+D22E", "U+D22F", "U+D230", "U+D231", "U+D232",
      "U+D233", "U+D234", "U+D235", "U+D236", "U+D237", "U+D238", "U+D239",
      "U+D23A", "U+D23B", "U+D23C", "U+D23D", "U+D23E", "U+D23F", "U+D240",
      "U+D241", "U+D242", "U+D243", "U+D244", "U+D245", "U+D246", "U+D247",
      "U+D248", "U+D249", "U+D24A", "U+D24B", "U+D24C", "U+D24D", "U+D24E",
      "U+D24F", "U+D250", "U+D251", "U+D252", "U+D253", "U+D254", "U+D255",
      "U+D256", "U+D257", "U+D258", "U+D259", "U+D25A", "U+D25B", "U+D25C",
      "U+D25D", "U+D25E", "U+D25F", "U+D260", "U+D261", "U+D262", "U+D263",
      "U+D264", "U+D265", "U+D266", "U+D267", "U+D268", "U+D269", "U+D26A",
      "U+D26B", "U+D26C", "U+D26D", "U+D26E", "U+D26F", "U+D270", "U+D271",
      "U+D272", "U+D273", "U+D274", "U+D275", "U+D276", "U+D277", "U+D278",
      "U+D279", "U+D27A", "U+D27B", "U+D27C", "U+D27D", "U+D27E", "U+D27F",
      "U+D280", "U+D281", "U+D282", "U+D283", "U+D284", "U+D285", "U+D286",
      "U+D287", "U+D288", "U+D289", "U+D28A", "U+D28B", "U+D28C", "U+D28D",
      "U+D28E", "U+D28F", "U+D290", "U+D291", "U+D292", "U+D293", "U+D294",
      "U+D295", "U+D296", "U+D297", "U+D298", "U+D299", "U+D29A", "U+D29B",
      "U+D29C", "U+D29D", "U+D29E", "U+D29F", "U+D2A0", "U+D2A1", "U+D2A2",
      "U+D2A3", "U+D2A4", "U+D2A5", "U+D2A6", "U+D2A7", "U+D2A8", "U+D2A9",
      "U+D2AA", "U+D2AB", "U+D2AC", "U+D2AD", "U+D2AE", "U+D2AF", "U+D2B0",
      "U+D2B1", "U+D2B2", "U+D2B3", "U+D2B4", "U+D2B5", "U+D2B6", "U+D2B7",
      "U+D2B8", "U+D2B9", "U+D2BA", "U+D2BB", "U+D2BC", "U+D2BD", "U+D2BE",
      "U+D2BF", "U+D2C0", "U+D2C1", "U+D2C2", "U+D2C3", "U+D2C4", "U+D2C5",
      "U+D2C6", "U+D2C7", "U+D2C8", "U+D2C9", "U+D2CA", "U+D2CB", "U+D2CC",
      "U+D2CD", "U+D2CE", "U+D2CF", "U+D2D0", "U+D2D1", "U+D2D2", "U+D2D3",
      "U+D2D4", "U+D2D5", "U+D2D6", "U+D2D7", "U+D2D8", "U+D2D9", "U+D2DA",
      "U+D2DB", "U+D2DC", "U+D2DD", "U+D2DE", "U+D2DF", "U+D2E0", "U+D2E1",
      "U+D2E2", "U+D2E3", "U+D2E4", "U+D2E5", "U+D2E6", "U+D2E7", "U+D2E8",
      "U+D2E9", "U+D2EA", "U+D2EB", "U+D2EC", "U+D2ED", "U+D2EE", "U+D2EF",
      "U+D2F0", "U+D2F1", "U+D2F2", "U+D2F3", "U+D2F4", "U+D2F5", "U+D2F6",
      "U+D2F7", "U+D2F8", "U+D2F9", "U+D2FA", "U+D2FB", "U+D2FC", "U+D2FD",
      "U+D2FE", "U+D2FF", "U+D300", "U+D301", "U+D302", "U+D303", "U+D304",
      "U+D305", "U+D306", "U+D307", "U+D308", "U+D309", "U+D30A", "U+D30B",
      "U+D30C", "U+D30D", "U+D30E", "U+D30F", "U+D310", "U+D311", "U+D312",
      "U+D313", "U+D314", "U+D315", "U+D316", "U+D317", "U+D318", "U+D319",
      "U+D31A", "U+D31B", "U+D31C", "U+D31D", "U+D31E", "U+D31F", "U+D320",
      "U+D321", "U+D322", "U+D323", "U+D324", "U+D325", "U+D326", "U+D327",
      "U+D328", "U+D329", "U+D32A", "U+D32B", "U+D32C", "U+D32D", "U+D32E",
      "U+D32F", "U+D330", "U+D331", "U+D332", "U+D333", "U+D334", "U+D335",
      "U+D336", "U+D337", "U+D338", "U+D339", "U+D33A", "U+D33B", "U+D33C",
      "U+D33D", "U+D33E", "U+D33F", "U+D340", "U+D341", "U+D342", "U+D343",
      "U+D344", "U+D345", "U+D346", "U+D347", "U+D348", "U+D349", "U+D34A",
      "U+D34B", "U+D34C", "U+D34D", "U+D34E", "U+D34F", "U+D350", "U+D351",
      "U+D352", "U+D353", "U+D354", "U+D355", "U+D356", "U+D357", "U+D358",
      "U+D359", "U+D35A", "U+D35B", "U+D35C", "U+D35D", "U+D35E", "U+D35F",
      "U+D360", "U+D361", "U+D362", "U+D363", "U+D364", "U+D365", "U+D366",
      "U+D367", "U+D368", "U+D369", "U+D36A", "U+D36B", "U+D36C", "U+D36D",
      "U+D36E", "U+D36F", "U+D370", "U+D371", "U+D372", "U+D373", "U+D374",
      "U+D375", "U+D376", "U+D377", "U+D378", "U+D379", "U+D37A", "U+D37B",
      "U+D37C", "U+D37D", "U+D37E", "U+D37F", "U+D380", "U+D381", "U+D382",
      "U+D383", "U+D384", "U+D385", "U+D386", "U+D387", "U+D388", "U+D389",
      "U+D38A", "U+D38B", "U+D38C", "U+D38D", "U+D38E", "U+D38F", "U+D390",
      "U+D391", "U+D392", "U+D393", "U+D394", "U+D395", "U+D396", "U+D397",
      "U+D398", "U+D399", "U+D39A", "U+D39B", "U+D39C", "U+D39D", "U+D39E",
      "U+D39F", "U+D3A0", "U+D3A1", "U+D3A2", "U+D3A3", "U+D3A4", "U+D3A5",
      "U+D3A6", "U+D3A7", "U+D3A8", "U+D3A9", "U+D3AA", "U+D3AB", "U+D3AC",
      "U+D3AD", "U+D3AE", "U+D3AF", "U+D3B0", "U+D3B1", "U+D3B2", "U+D3B3",
      "U+D3B4", "U+D3B5", "U+D3B6", "U+D3B7", "U+D3B8", "U+D3B9", "U+D3BA",
      "U+D3BB", "U+D3BC", "U+D3BD", "U+D3BE", "U+D3BF", "U+D3C0", "U+D3C1",
      "U+D3C2", "U+D3C3", "U+D3C4", "U+D3C5", "U+D3C6", "U+D3C7", "U+D3C8",
      "U+D3C9", "U+D3CA", "U+D3CB", "U+D3CC", "U+D3CD", "U+D3CE", "U+D3CF",
      "U+D3D0", "U+D3D1", "U+D3D2", "U+D3D3", "U+D3D4", "U+D3D5", "U+D3D6",
      "U+D3D7", "U+D3D8", "U+D3D9", "U+D3DA", "U+D3DB", "U+D3DC", "U+D3DD",
      "U+D3DE", "U+D3DF", "U+D3E0", "U+D3E1", "U+D3E2", "U+D3E3", "U+D3E4",
      "U+D3E5", "U+D3E6", "U+D3E7", "U+D3E8", "U+D3E9", "U+D3EA", "U+D3EB",
      "U+D3EC", "U+D3ED", "U+D3EE", "U+D3EF", "U+D3F0", "U+D3F1", "U+D3F2",
      "U+D3F3", "U+D3F4", "U+D3F5", "U+D3F6", "U+D3F7", "U+D3F8", "U+D3F9",
      "U+D3FA", "U+D3FB", "U+D3FC", "U+D3FD", "U+D3FE", "U+D3FF", "U+D400",
      "U+D401", "U+D402", "U+D403", "U+D404", "U+D405", "U+D406", "U+D407",
      "U+D408", "U+D409", "U+D40A", "U+D40B", "U+D40C", "U+D40D", "U+D40E",
      "U+D40F", "U+D410", "U+D411", "U+D412", "U+D413", "U+D414", "U+D415",
      "U+D416", "U+D417", "U+D418", "U+D419", "U+D41A", "U+D41B", "U+D41C",
      "U+D41D", "U+D41E", "U+D41F", "U+D420", "U+D421", "U+D422", "U+D423",
      "U+D424", "U+D425", "U+D426", "U+D427", "U+D428", "U+D429", "U+D42A",
      "U+D42B", "U+D42C", "U+D42D", "U+D42E", "U+D42F", "U+D430", "U+D431",
      "U+D432", "U+D433", "U+D434", "U+D435", "U+D436", "U+D437", "U+D438",
      "U+D439", "U+D43A", "U+D43B", "U+D43C", "U+D43D", "U+D43E", "U+D43F",
      "U+D440", "U+D441", "U+D442", "U+D443", "U+D444", "U+D445", "U+D446",
      "U+D447", "U+D448", "U+D449", "U+D44A", "U+D44B", "U+D44C", "U+D44D",
      "U+D44E", "U+D44F", "U+D450", "U+D451", "U+D452", "U+D453", "U+D454",
      "U+D455", "U+D456", "U+D457", "U+D458", "U+D459", "U+D45A", "U+D45B",
      "U+D45C", "U+D45D", "U+D45E", "U+D45F", "U+D460", "U+D461", "U+D462",
      "U+D463", "U+D464", "U+D465", "U+D466", "U+D467", "U+D468", "U+D469",
      "U+D46A", "U+D46B", "U+D46C", "U+D46D", "U+D46E", "U+D46F", "U+D470",
      "U+D471", "U+D472", "U+D473", "U+D474", "U+D475", "U+D476", "U+D477",
      "U+D478", "U+D479", "U+D47A", "U+D47B", "U+D47C", "U+D47D", "U+D47E",
      "U+D47F", "U+D480", "U+D481", "U+D482", "U+D483", "U+D484", "U+D485",
      "U+D486", "U+D487", "U+D488", "U+D489", "U+D48A", "U+D48B", "U+D48C",
      "U+D48D", "U+D48E", "U+D48F", "U+D490", "U+D491", "U+D492", "U+D493",
      "U+D494", "U+D495", "U+D496", "U+D497", "U+D498", "U+D499", "U+D49A",
      "U+D49B", "U+D49C", "U+D49D", "U+D49E", "U+D49F", "U+D4A0", "U+D4A1",
      "U+D4A2", "U+D4A3", "U+D4A4", "U+D4A5", "U+D4A6", "U+D4A7", "U+D4A8",
      "U+D4A9", "U+D4AA", "U+D4AB", "U+D4AC", "U+D4AD", "U+D4AE", "U+D4AF",
      "U+D4B0", "U+D4B1", "U+D4B2", "U+D4B3", "U+D4B4", "U+D4B5", "U+D4B6",
      "U+D4B7", "U+D4B8", "U+D4B9", "U+D4BA", "U+D4BB", "U+D4BC", "U+D4BD",
      "U+D4BE", "U+D4BF", "U+D4C0", "U+D4C1", "U+D4C2", "U+D4C3", "U+D4C4",
      "U+D4C5", "U+D4C6", "U+D4C7", "U+D4C8", "U+D4C9", "U+D4CA", "U+D4CB",
      "U+D4CC", "U+D4CD", "U+D4CE", "U+D4CF", "U+D4D0", "U+D4D1", "U+D4D2",
      "U+D4D3", "U+D4D4", "U+D4D5", "U+D4D6", "U+D4D7", "U+D4D8", "U+D4D9",
      "U+D4DA", "U+D4DB", "U+D4DC", "U+D4DD", "U+D4DE", "U+D4DF", "U+D4E0",
      "U+D4E1", "U+D4E2", "U+D4E3", "U+D4E4", "U+D4E5", "U+D4E6", "U+D4E7",
      "U+D4E8", "U+D4E9", "U+D4EA", "U+D4EB", "U+D4EC", "U+D4ED", "U+D4EE",
      "U+D4EF", "U+D4F0", "U+D4F1", "U+D4F2", "U+D4F3", "U+D4F4", "U+D4F5",
      "U+D4F6", "U+D4F7", "U+D4F8", "U+D4F9", "U+D4FA", "U+D4FB", "U+D4FC",
      "U+D4FD", "U+D4FE", "U+D4FF", "U+D500", "U+D501", "U+D502", "U+D503",
      "U+D504", "U+D505", "U+D506", "U+D507", "U+D508", "U+D509", "U+D50A",
      "U+D50B", "U+D50C", "U+D50D", "U+D50E", "U+D50F", "U+D510", "U+D511",
      "U+D512", "U+D513", "U+D514", "U+D515", "U+D516", "U+D517", "U+D518",
      "U+D519", "U+D51A", "U+D51B", "U+D51C", "U+D51D", "U+D51E", "U+D51F",
      "U+D520", "U+D521", "U+D522", "U+D523", "U+D524", "U+D525", "U+D526",
      "U+D527", "U+D528", "U+D529", "U+D52A", "U+D52B", "U+D52C", "U+D52D",
      "U+D52E", "U+D52F", "U+D530", "U+D531", "U+D532", "U+D533", "U+D534",
      "U+D535", "U+D536", "U+D537", "U+D538", "U+D539", "U+D53A", "U+D53B",
      "U+D53C", "U+D53D", "U+D53E", "U+D53F", "U+D540", "U+D541", "U+D542",
      "U+D543", "U+D544", "U+D545", "U+D546", "U+D547", "U+D548", "U+D549",
      "U+D54A", "U+D54B", "U+D54C", "U+D54D", "U+D54E", "U+D54F", "U+D550",
      "U+D551", "U+D552", "U+D553", "U+D554", "U+D555", "U+D556", "U+D557",
      "U+D558", "U+D559", "U+D55A", "U+D55B", "U+D55C", "U+D55D", "U+D55E",
      "U+D55F", "U+D560", "U+D561", "U+D562", "U+D563", "U+D564", "U+D565",
      "U+D566", "U+D567", "U+D568", "U+D569", "U+D56A", "U+D56B", "U+D56C",
      "U+D56D", "U+D56E", "U+D56F", "U+D570", "U+D571", "U+D572", "U+D573",
      "U+D574", "U+D575", "U+D576", "U+D577", "U+D578", "U+D579", "U+D57A",
      "U+D57B", "U+D57C", "U+D57D", "U+D57E", "U+D57F", "U+D580", "U+D581",
      "U+D582", "U+D583", "U+D584", "U+D585", "U+D586", "U+D587", "U+D588",
      "U+D589", "U+D58A", "U+D58B", "U+D58C", "U+D58D", "U+D58E", "U+D58F",
      "U+D590", "U+D591", "U+D592", "U+D593", "U+D594", "U+D595", "U+D596",
      "U+D597", "U+D598", "U+D599", "U+D59A", "U+D59B", "U+D59C", "U+D59D",
      "U+D59E", "U+D59F", "U+D5A0", "U+D5A1", "U+D5A2", "U+D5A3", "U+D5A4",
      "U+D5A5", "U+D5A6", "U+D5A7", "U+D5A8", "U+D5A9", "U+D5AA", "U+D5AB",
      "U+D5AC", "U+D5AD", "U+D5AE", "U+D5AF", "U+D5B0", "U+D5B1", "U+D5B2",
      "U+D5B3", "U+D5B4", "U+D5B5", "U+D5B6", "U+D5B7", "U+D5B8", "U+D5B9",
      "U+D5BA", "U+D5BB", "U+D5BC", "U+D5BD", "U+D5BE", "U+D5BF", "U+D5C0",
      "U+D5C1", "U+D5C2", "U+D5C3", "U+D5C4", "U+D5C5", "U+D5C6", "U+D5C7",
      "U+D5C8", "U+D5C9", "U+D5CA", "U+D5CB", "U+D5CC", "U+D5CD", "U+D5CE",
      "U+D5CF", "U+D5D0", "U+D5D1", "U+D5D2", "U+D5D3", "U+D5D4", "U+D5D5",
      "U+D5D6", "U+D5D7", "U+D5D8", "U+D5D9", "U+D5DA", "U+D5DB", "U+D5DC",
      "U+D5DD", "U+D5DE", "U+D5DF", "U+D5E0", "U+D5E1", "U+D5E2", "U+D5E3",
      "U+D5E4", "U+D5E5", "U+D5E6", "U+D5E7", "U+D5E8", "U+D5E9", "U+D5EA",
      "U+D5EB", "U+D5EC", "U+D5ED", "U+D5EE", "U+D5EF", "U+D5F0", "U+D5F1",
      "U+D5F2", "U+D5F3", "U+D5F4", "U+D5F5", "U+D5F6", "U+D5F7", "U+D5F8",
      "U+D5F9", "U+D5FA", "U+D5FB", "U+D5FC", "U+D5FD", "U+D5FE", "U+D5FF",
      "U+D600", "U+D601", "U+D602", "U+D603", "U+D604", "U+D605", "U+D606",
      "U+D607", "U+D608", "U+D609", "U+D60A", "U+D60B", "U+D60C", "U+D60D",
      "U+D60E", "U+D60F", "U+D610", "U+D611", "U+D612", "U+D613", "U+D614",
      "U+D615", "U+D616", "U+D617", "U+D618", "U+D619", "U+D61A", "U+D61B",
      "U+D61C", "U+D61D", "U+D61E", "U+D61F", "U+D620", "U+D621", "U+D622",
      "U+D623", "U+D624", "U+D625", "U+D626", "U+D627", "U+D628", "U+D629",
      "U+D62A", "U+D62B", "U+D62C", "U+D62D", "U+D62E", "U+D62F", "U+D630",
      "U+D631", "U+D632", "U+D633", "U+D634", "U+D635", "U+D636", "U+D637",
      "U+D638", "U+D639", "U+D63A", "U+D63B", "U+D63C", "U+D63D", "U+D63E",
      "U+D63F", "U+D640", "U+D641", "U+D642", "U+D643", "U+D644", "U+D645",
      "U+D646", "U+D647", "U+D648", "U+D649", "U+D64A", "U+D64B", "U+D64C",
      "U+D64D", "U+D64E", "U+D64F", "U+D650", "U+D651", "U+D652", "U+D653",
      "U+D654", "U+D655", "U+D656", "U+D657", "U+D658", "U+D659", "U+D65A",
      "U+D65B", "U+D65C", "U+D65D", "U+D65E", "U+D65F", "U+D660", "U+D661",
      "U+D662", "U+D663", "U+D664", "U+D665", "U+D666", "U+D667", "U+D668",
      "U+D669", "U+D66A", "U+D66B", "U+D66C", "U+D66D", "U+D66E", "U+D66F",
      "U+D670", "U+D671", "U+D672", "U+D673", "U+D674", "U+D675", "U+D676",
      "U+D677", "U+D678", "U+D679", "U+D67A", "U+D67B", "U+D67C", "U+D67D",
      "U+D67E", "U+D67F", "U+D680", "U+D681", "U+D682", "U+D683", "U+D684",
      "U+D685", "U+D686", "U+D687", "U+D688", "U+D689", "U+D68A", "U+D68B",
      "U+D68C", "U+D68D", "U+D68E", "U+D68F", "U+D690", "U+D691", "U+D692",
      "U+D693", "U+D694", "U+D695", "U+D696", "U+D697", "U+D698", "U+D699",
      "U+D69A", "U+D69B", "U+D69C", "U+D69D", "U+D69E", "U+D69F", "U+D6A0",
      "U+D6A1", "U+D6A2", "U+D6A3", "U+D6A4", "U+D6A5", "U+D6A6", "U+D6A7",
      "U+D6A8", "U+D6A9", "U+D6AA", "U+D6AB", "U+D6AC", "U+D6AD", "U+D6AE",
      "U+D6AF", "U+D6B0", "U+D6B1", "U+D6B2", "U+D6B3", "U+D6B4", "U+D6B5",
      "U+D6B6", "U+D6B7", "U+D6B8", "U+D6B9", "U+D6BA", "U+D6BB", "U+D6BC",
      "U+D6BD", "U+D6BE", "U+D6BF", "U+D6C0", "U+D6C1", "U+D6C2", "U+D6C3",
      "U+D6C4", "U+D6C5", "U+D6C6", "U+D6C7", "U+D6C8", "U+D6C9", "U+D6CA",
      "U+D6CB", "U+D6CC", "U+D6CD", "U+D6CE", "U+D6CF", "U+D6D0", "U+D6D1",
      "U+D6D2", "U+D6D3", "U+D6D4", "U+D6D5", "U+D6D6", "U+D6D7", "U+D6D8",
      "U+D6D9", "U+D6DA", "U+D6DB", "U+D6DC", "U+D6DD", "U+D6DE", "U+D6DF",
      "U+D6E0", "U+D6E1", "U+D6E2", "U+D6E3", "U+D6E4", "U+D6E5", "U+D6E6",
      "U+D6E7", "U+D6E8", "U+D6E9", "U+D6EA", "U+D6EB", "U+D6EC", "U+D6ED",
      "U+D6EE", "U+D6EF", "U+D6F0", "U+D6F1", "U+D6F2", "U+D6F3", "U+D6F4",
      "U+D6F5", "U+D6F6", "U+D6F7", "U+D6F8", "U+D6F9", "U+D6FA", "U+D6FB",
      "U+D6FC", "U+D6FD", "U+D6FE", "U+D6FF", "U+D700", "U+D701", "U+D702",
      "U+D703", "U+D704", "U+D705", "U+D706", "U+D707", "U+D708", "U+D709",
      "U+D70A", "U+D70B", "U+D70C", "U+D70D", "U+D70E", "U+D70F", "U+D710",
      "U+D711", "U+D712", "U+D713", "U+D714", "U+D715", "U+D716", "U+D717",
      "U+D718", "U+D719", "U+D71A", "U+D71B", "U+D71C", "U+D71D", "U+D71E",
      "U+D71F", "U+D720", "U+D721", "U+D722", "U+D723", "U+D724", "U+D725",
      "U+D726", "U+D727", "U+D728", "U+D729", "U+D72A", "U+D72B", "U+D72C",
      "U+D72D", "U+D72E", "U+D72F", "U+D730", "U+D731", "U+D732", "U+D733",
      "U+D734", "U+D735", "U+D736", "U+D737", "U+D738", "U+D739", "U+D73A",
      "U+D73B", "U+D73C", "U+D73D", "U+D73E", "U+D73F", "U+D740", "U+D741",
      "U+D742", "U+D743", "U+D744", "U+D745", "U+D746", "U+D747", "U+D748",
      "U+D749", "U+D74A", "U+D74B", "U+D74C", "U+D74D", "U+D74E", "U+D74F",
      "U+D750", "U+D751", "U+D752", "U+D753", "U+D754", "U+D755", "U+D756",
      "U+D757", "U+D758", "U+D759", "U+D75A", "U+D75B", "U+D75C", "U+D75D",
      "U+D75E", "U+D75F", "U+D760", "U+D761", "U+D762", "U+D763", "U+D764",
      "U+D765", "U+D766", "U+D767", "U+D768", "U+D769", "U+D76A", "U+D76B",
      "U+D76C", "U+D76D", "U+D76E", "U+D76F", "U+D770", "U+D771", "U+D772",
      "U+D773", "U+D774", "U+D775", "U+D776", "U+D777", "U+D778", "U+D779",
      "U+D77A", "U+D77B", "U+D77C", "U+D77D", "U+D77E", "U+D77F", "U+D780",
      "U+D781", "U+D782", "U+D783", "U+D784", "U+D785", "U+D786", "U+D787",
      "U+D788", "U+D789", "U+D78A", "U+D78B", "U+D78C", "U+D78D", "U+D78E",
      "U+D78F", "U+D790", "U+D791", "U+D792", "U+D793", "U+D794", "U+D795",
      "U+D796", "U+D797", "U+D798", "U+D799", "U+D79A", "U+D79B", "U+D79C",
      "U+D79D", "U+D79E", "U+D79F", "U+D7A0", "U+D7A1", "U+D7A2", "U+D7A3" >>

HangulSet == {HangulSyllables[i] : i \in DOMAIN HangulSyllables}

\* index of character c in the sequence of characters s, 0 when c is not in s
IndexIn(s, c) ==
    IF \E i \in DOMAIN s : s[i] = c THEN CHOOSE i \in DOMAIN s : s[i] = c ELSE 0

\* the canonical decomposition of one character
Decompose(c) ==
    LET n == IndexIn(HangulSyllables, c) - 1
        T_COUNT == Len(HangulT) + 1
        l == n \div (Len(HangulV) * T_COUNT)
        v == (n % (Len(HangulV) * T_COUNT)) \div T_COUNT
        t == n % T_COUNT
    IN  IF c \in DOMAIN DecompositionMap THEN DecompositionMap[c]
        ELSE IF c \in HangulSet
            THEN <<HangulL[l + 1], HangulV[v + 1]>> \o (IF t = 0 THEN <<>> ELSE <<HangulT[t]>>)
        ELSE <<c>>

\* the canonical combining classes other than 0, each with its characters
CombiningClasses ==
    <<
      <<1, { "U+0334", "U+0335", "U+0336", "U+0337", "U+0338", "U+1CD4",
           "U+1CE2", "U+1CE3", "U+1CE4", "U+1CE5", "U+1CE6", "U+1CE7",
           "U+1CE8", "U+20D2", "U+20D3", "U+20D8", "U+20D9", "U+20DA",
           "U+20E5", "U+20E6", "U+20EA", "U+20EB", "U+10A39", "U+16AF0",
           "U+16AF1", "U+16AF2", "U+16AF3", "U+16AF4", "U+1BC9E", "U+1D167",
           "U+1D168", "U+1D169" }>>,
      <<6, { "U+16FF0", "U+16FF1" }>>,
      <<7, { "U+093C", "U+09BC", "U+0A3C", "U+0ABC", "U+0B3C", "U+0C3C",
           "U+0CBC", "U+1037", "U+1B34", "U+1BE6", "U+1C37", "U+A9B3",
           "U+110BA", "U+11173", "U+111CA", "U+11236", "U+112E9", "U+1133B",
           "U+1133C", "U+11446", "U+114C3", "U+115C0", "U+116B7", "U+1183A",
           "U+11943", "U+11D42", "U+1E94A" }>>,
      <<8, { "U+3099", "U+309A" }>>,
      <<9, { "U+094D", "U+09CD", "U+0A4D", "U+0ACD", "U+0B4D", "U+0BCD",
           "U+0C4D", "U+0CCD", "U+0D3B", "U+0D3C", "U+0D4D", "U+0DCA",
           "U+0E3A", "U+0EBA", "U+0F84", "U+1039", "U+103A", "U+1714",
           "U+1715", "U+1734", "U+17D2", "U+1A60", "U+1B44", "U+1BAA",
           "U+1BAB", "U+1BF2", "U+1BF3", "U+2D7F", "U+A806", "U+A82C",
           "U+A8C4", "U+A953", "U+A9C0", "U+AAF6", "U+ABED", "U+10A3F",
           "U+11046", "U+11070", "U+1107F", "U+110B9", "U+11133", "U+11134",
           "U+111C0", "U+11235", "U+112EA", "U+1134D", "U+11442", "U+114C2",
           "U+115BF", "U+1163F", "U+116B6", "U+1172B", "U+11839", "U+1193D",
           "U+1193E", "U+119E0", "U+11A34", "U+11A47", "U+11A99", "U+11C3F",
           "U+11D44", "U+11D45", "U+11D97" }>>,
      <<10, { "U+05B0" }>>,
      <<11, { "U+05B1" }>>,
      <<12, { "U+05B2" }>>,
      <<13, { "U+05B3" }>>,
      <<14, { "U+05B4" }>>,
      <<15, { "U+05B5" }>>,
      <<16, { "U+05B6" }>>,
      <<17, { "U+05B7" }>>,
      <<18, { "U+05B8", "U+05C7" }>>,
      <<19, { "U+05B9", "U+05BA" }>>,
      <<20, { "U+05BB" }>>,
      <<21, { "U+05BC" }>>,
      <<22, { "U+05BD" }>>,
      <<23, { "U+05BF" }>>,
      <<24, { "U+05C1" }>>,
      <<25, { "U+05C2" }>>,
      <<26, { "U+FB1E" }>>,
      <<27, { "U+064B", "U+08F0" }>>,
      <<28, { "U+064C", "U+08F1" }>>,
      <<29, { "U+064D", "U+08F2" }>>,
      <<30, { "U+0618", "U+064E" }>>,
      <<31, { "U+0619", "U+064F" }>>,
      <<32, { "U+061A", "U+0650" }>>,
      <<33, { "U+0651" }>>,
      <<34, { "U+0652" }>>,
      <<35, { "U+0670" }>>,
      <<36, { "U+0711" }>>,
      <<84, { "U+0C55" }>>,
      <<91, { "U+0C56" }>>,
      <<103, { "U+0E38", "U+0E39" }>>,
      <<107, { "U+0E48", "U+0E49", "U+0E4A", "U+0E4B" }>>,
      <<118, { "U+0EB8", "U+0EB9" }>>,
      <<122, { "U+0EC8", "U+0EC9", "U+0ECA", "U+0ECB" }>>,
      <<129, { "U+0F71" }>>,
      <<130, { "U+0F72", "U+0F7A", "U+0F7B", "U+0F7C", "U+0F7D", "U+0F80" }>>,
      <<132, { "U+0F74" }>>,
      <<202, { "U+0321", "U+0322", "U+0327", "U+0328", "U+1DD0" }>>,
      <<214, { "U+1DCE" }>>,
      <<216, { "U+031B", "U+0F39", "U+1D165", "U+1D166", "U+1D16E", "U+1D16F",
           "U+1D170", "U+1D171", "U+1D172" }>>,
      <<218, { "U+1DFA", "U+302A" }>>,
      <<220, { "U+0316", "U+0317", "U+0318", "U+0319", "U+031C", "U+031D",
           "U+031E", "U+031F", "U+0320", "U+0323", "U+0324", "U+0325",
           "U+0326", "U+0329", "U+032A", "U+032B", "U+032C", "U+032D",
           "U+032E", "U+032F", "U+0330", "U+0331", "U+0332", "U+0333",
           "U+0339", "U+033A", "U+033B", "U+033C", "U+0347", "U+0348",
           "U+0349", "U+034D", "U+034E", "U+0353", "U+0354", "U+0355",
           "U+0356", "U+0359", "U+035A", "U+0591", "U+0596", "U+059B",
           "U+05A2", "U+05A3", "U+05A4", "U+05A5", "U+05A6", "U+05A7",
           "U+05AA", "U+05C5", "U+0655", "U+0656", "U+065C", "U+065F",
           "U+06E3", "U+06EA", "U+06ED", "U+0731", "U+0734", "U+0737",
           "U+0738", "U+0739", "U+073B", "U+073C", "U+073E", "U+0742",
           "U+0744", "U+0746", "U+0748", "U+07F2", "U+07FD", "U+0859",
           "U+085A", "U+085B", "U+0899", "U+089A", "U+089B", "U+08CF",
           "U+08D0", "U+08D1", "U+08D2", "U+08D3", "U+08E3", "U+08E6",
           "U+08E9", "U+08ED", "U+08EE", "U+08EF", "U+08F6", "U+08F9",
           "U+08FA", "U+0952", "U+0F18", "U+0F19", "U+0F35", "U+0F37",
           "U+0FC6", "U+108D", "U+193B", "U+1A18", "U+1A7F", "U+1AB5",
           "U+1AB6", "U+1AB7", "U+1AB8", "U+1AB9", "U+1ABA", "U+1ABD",
           "U+1ABF", "U+1AC0", "U+1AC3", "U+1AC4", "U+1ACA", "U+1B6C",
           "U+1CD5", "U+1CD6", "U+1CD7", "U+1CD8", "U+1CD9", "U+1CDC",
           "U+1CDD", "U+1CDE", "U+1CDF", "U+1CED", "U+1DC2", "U+1DCA",
           "U+1DCF", "U+1DF9", "U+1DFD", "U+1DFF", "U+20E8", "U+20EC",
           "U+20ED", "U+20EE", "U+20EF", "U+A92B", "U+A92C", "U+A92D",
           "U+AAB4", "U+FE27", "U+FE28", "U+FE29", "U+FE2A", "U+FE2B",
           "U+FE2C", "U+FE2D", "U+101FD", "U+102E0", "U+10A0D", "U+10A3A",
           "U+10AE6", "U+10F46", "U+10F47", "U+10F4B", "U+10F4D", "U+10F4E",
           "U+10F4F", "U+10F50", "U+10F83", "U+10F85", "U+1D17B", "U+1D17C",
           "U+1D17D", "U+1D17E", "U+1D17F", "U+1D180", "U+1D181", "U+1D182",
           "U+1D18A", "U+1D18B", "U+1E8D0", "U+1E8D1", "U+1E8D2", "U+1E8D3",
           "U+1E8D4", "U+1E8D5", "U+1E8D6" }>>,
      <<222, { "U+059A", "U+05AD", "U+1939", "U+302D" }>>,
      <<224, { "U+302E", "U+302F" }>>,
      <<226, { "U+1D16D" }>>,
      <<228, { "U+05AE", "U+18A9", "U+1DF7", "U+1DF8", "U+302B" }>>,
      <<230, { "U+0300", "U+0301", "U+0302", "U+0303", "U+0304", "U+0305",
           "U+0306", "U+0307", "combining-diaeresis", "U+0309", "U+030A",
           "U+030B", "U+030C", "U+030D", "U+030E", "U+030F", "U+0310",
           "U+0311", "U+0312", "U+0313", "U+0314", "U+033D", "U+033E",
           "U+033F", "U+0340", "U+0341", "U+0342", "U+0343", "U+0344",
           "U+0346", "U+034A", "U+034B", "U+034C", "U+0350", "U+0351",
           "U+0352", "U+0357", "U+035B", "U+0363", "U+0364", "U+0365",
           "U+0366", "U+0367", "U+0368", "U+0369", "U+036A", "U+036B",
           "U+036C", "U+036D", "U+036E", "U+036F", "U+0483", "U+0484",
           "U+0485", "U+0486", "U+0487", "U+0592", "U+0593", "U+0594",
           "U+0595", "U+0597", "U+0598", "U+0599", "U+059C", "U+059D",
           "U+059E", "U+059F", "U+05A0", "U+05A1", "U+05A8", "U+05A9",
           "U+05AB", "U+05AC", "U+05AF", "U+05C4", "U+0610", "U+0611",
           "U+0612", "U+0613", "U+0614", "U+0615", "U+0616", "U+0617",
           "U+0653", "U+0654", "U+0657", "U+0658", "U+0659", "U+065A",
           "U+065B", "U+065D", "U+065E", "U+06D6", "U+06D7", "U+06D8",
           "U+06D9", "U+06DA", "U+06DB", "U+06DC", "U+06DF", "U+06E0",
           "U+06E1", "U+06E2", "U+06E4", "U+06E7", "U+06E8", "U+06EB",
           "U+06EC", "U+0730", "U+0732", "U+0733", "U+0735", "U+0736",
           "U+073A", "U+073D", "U+073F", "U+0740", "U+0741", "U+0743",
           "U+0745", "U+0747", "U+0749", "U+074A", "U+07EB", "U+07EC",
           "U+07ED", "U+07EE", "U+07EF", "U+07F0", "U+07F1", "U+07F3",
           "U+0816", "U+0817", "U+0818", "U+0819", "U+081B", "U+081C",
           "U+081D", "U+081E", "U+081F", "U+0820", "U+0821", "U+0822",
           "U+0823", "U+0825", "U+0826", "U+0827", "U+0829", "U+082A",
           "U+082B", "U+082C", "U+082D", "U+0898", "U+089C", "U+089D",
           "U+089E", "U+089F", "U+08CA", "U+08CB", "U+08CC", "U+08CD",
           "U+08CE", "U+08D4", "U+08D5", "U+08D6", "U+08D7", "U+08D8",
           "U+08D9", "U+08DA", "U+08DB", "U+08DC", "U+08DD", "U+08DE",
           "U+08DF", "U+08E0", "U+08E1", "U+08E4", "U+08E5", "U+08E7",
           "U+08E8", "U+08EA", "U+08EB", "U+08EC", "U+08F3", "U+08F4",
           "U+08F5", "U+08F7", "U+08F8", "U+08FB", "U+08FC", "U+08FD",
           "U+08FE", "U+08FF", "U+0951", "U+0953", "U+0954", "U+09FE",
           "U+0F82", "U+0F83", "U+0F86", "U+0F87", "U+135D", "U+135E",
           "U+135F", "U+17DD", "U+193A", "U+1A17", "U+1A75", "U+1A76",
           "U+1A77", "U+1A78", "U+1A79", "U+1A7A", "U+1A7B", "U+1A7C",
           "U+1AB0", "U+1AB1", "U+1AB2", "U+1AB3", "U+1AB4", "U+1ABB",
           "U+1ABC", "U+1AC1", "U+1AC2", "U+1AC5", "U+1AC6", "U+1AC7",
           "U+1AC8", "U+1AC9", "U+1ACB", "U+1ACC", "U+1ACD", "U+1ACE",
           "U+1B6B", "U+1B6D", "U+1B6E", "U+1B6F", "U+1B70", "U+1B71",
           "U+1B72", "U+1B73", "U+1CD0", "U+1CD1", "U+1CD2", "U+1CDA",
           "U+1CDB", "U+1CE0", "U+1CF4", "U+1CF8", "U+1CF9", "U+1DC0",
           "U+1DC1", "U+1DC3", "U+1DC4", "U+1DC5", "U+1DC6", "U+1DC7",
           "U+1DC8", "U+1DC9", "U+1DCB", "U+1DCC", "U+1DD1", "U+1DD2",
           "U+1DD3", "U+1DD4", "U+1DD5", "U+1DD6", "U+1DD7", "U+1DD8",
           "U+1DD9", "U+1DDA", "U+1DDB", "U+1DDC", "U+1DDD", "U+1DDE",
           "U+1DDF", "U+1DE0", "U+1DE1", "U+1DE2", "U+1DE3", "U+1DE4",
           "U+1DE5", "U+1DE6", "U+1DE7", "U+1DE8", "U+1DE9", "U+1DEA",
           "U+1DEB", "U+1DEC", "U+1DED", "U+1DEE", "U+1DEF", "U+1DF0",
           "U+1DF1", "U+1DF2", "U+1DF3", "U+1DF4", "U+1DF5", "U+1DFB",
           "U+1DFE", "U+20D0", "U+20D1", "U+20D4", "U+20D5", "U+20D6",
           "U+20D7", "U+20DB", "U+20DC", "U+20E1", "U+20E7", "U+20E9",
           "U+20F0", "U+2CEF", "U+2CF0", "U+2CF1", "U+2DE0", "U+2DE1",
           "U+2DE2", "U+2DE3", "U+2DE4", "U+2DE5", "U+2DE6", "U+2DE7",
           "U+2DE8", "U+2DE9", "U+2DEA", "U+2DEB", "U+2DEC", "U+2DED",
           "U+2DEE", "U+2DEF", "U+2DF0", "U+2DF1", "U+2DF2", "U+2DF3",
           "U+2DF4", "U+2DF5", "U+2DF6", "U+2DF7", "U+2DF8", "U+2DF9",
           "U+2DFA", "U+2DFB", "U+2DFC", "U+2DFD", "U+2DFE", "U+2DFF",
           "U+A66F", "U+A674", "U+A675", "U+A676", "U+A677", "U+A678",
           "U+A679", "U+A67A", "U+A67B", "U+A67C", "U+A67D", "U+A69E",
           "U+A69F", "U+A6F0", "U+A6F1", "U+A8E0", "U+A8E1", "U+A8E2",
           "U+A8E3", "U+A8E4", "U+A8E5", "U+A8E6", "U+A8E7", "U+A8E8",
           "U+A8E9", "U+A8EA", "U+A8EB", "U+A8EC", "U+A8ED", "U+A8EE",
           "U+A8EF", "U+A8F0", "U+A8F1", "U+AAB0", "U+AAB2", "U+AAB3",
           "U+AAB7", "U+AAB8", "U+AABE", "U+AABF", "U+AAC1", "U+FE20",
           "U+FE21", "U+FE22", "U+FE23", "U+FE24", "U+FE25", "U+FE26",
           "U+FE2E", "U+FE2F", "U+10376", "U+10377", "U+10378", "U+10379",
           "U+1037A", "U+10A0F", "U+10A38", "U+10AE5", "U+10D24", "U+10D25",
           "U+10D26", "U+10D27", "U+10EAB", "U+10EAC", "U+10F48", "U+10F49",
           "U+10F4A", "U+10F4C", "U+10F82", "U+10F84", "U+11100", "U+11101",
           "U+11102", "U+11366", "U+11367", "U+11368", "U+11369", "U+1136A",
           "U+1136B", "U+1136C", "U+11370", "U+11371", "U+11372", "U+11373",
           "U+11374", "U+1145E", "U+16B30", "U+16B31", "U+16B32", "U+16B33",
           "U+16B34", "U+16B35", "U+16B36", "U+1D185", "U+1D186", "U+1D187",
           "U+1D188", "U+1D189", "U+1D1AA", "U+1D1AB", "U+1D1AC", "U+1D1AD",
           "U+1D242", "U+1D243", "U+1D244", "U+1E000", "U+1E001", "U+1E002",
           "U+1E003", "U+1E004", "U+1E005", "U+1E006", "U+1E008", "U+1E009",
           "U+1E00A", "U+1E00B", "U+1E00C", "U+1E00D", "U+1E00E", "U+1E00F",
           "U+1E010", "U+1E011", "U+1E012", "U+1E013", "U+1E014", "U+1E015",
           "U+1E016", "U+1E017", "U+1E018", "U+1E01B", "U+1E01C", "U+1E01D",
           "U+1E01E", "U+1E01F", "U+1E020", "U+1E021", "U+1E023", "U+1E024",
           "U+1E026", "U+1E027", "U+1E028", "U+1E029", "U+1E02A", "U+1E130",
           "U+1E131", "U+1E132", "U+1E133", "U+1E134", "U+1E135", "U+1E136",
           "U+1E2AE", "U+1E2EC", "U+1E2ED", "U+1E2EE", "U+1E2EF", "U+1E944",
           "U+1E945", "U+1E946", "U+1E947", "U+1E948", "U+1E949" }>>,
      <<232, { "U+0315", "U+031A", "U+0358", "U+1DF6", "U+302C" }>>,
      <<233, { "U+035C", "U+035F", "U+0362", "U+1DFC" }>>,
      <<234, { "U+035D", "U+035E", "U+0360", "U+0361", "U+1DCD" }>>,
      <<240, { "U+0345" }>> >>

\* unicodedata.combining(c)
CCC(c) ==
    LET cls == {i \in DOMAIN CombiningClasses : c \in CombiningClasses[i][2]}
    IN  IF cls = {} THEN 0 ELSE CombiningClasses[CHOOSE i \in cls : TRUE][1]

\* the pairs of characters that compose, each with its composite
CompositionPairs ==
    <<
      <<"A", "U+0300", "À">>, <<"A", "U+0301", "Á">>, <<"A", "U+0302", "Â">>,
      <<"A", "U+0303", "Ã">>, <<"A", "combining-diaeresis", "Ä">>,
      <<"A", "U+030A", "Å">>, <<"C", "U+0327", "Ç">>, <<"E", "U+0300", "È">>,
      <<"E", "U+0301", "É">>, <<"E", "U+0302", "Ê">>,
      <<"E", "combining-diaeresis", "Ë">>, <<"I", "U+0300", "Ì">>,
      <<"I", "U+0301", "Í">>, <<"I", "U+0302", "Î">>,
      <<"I", "combining-diaeresis", "Ï">>, <<"N", "U+0303", "Ñ">>,
      <<"O", "U+0300", "Ò">>, <<"O", "U+0301", "Ó">>, <<"O", "U+0302", "Ô">>,
      <<"O", "U+0303", "Õ">>, <<"O", "combining-diaeresis", "Ö">>,
      <<"U", "U+0300", "Ù">>, <<"U", "U+0301", "Ú">>, <<"U", "U+0302", "Û">>,
      <<"U", "combining-diaeresis", "Ü">>, <<"Y", "U+0301", "Ý">>,
      <<"a", "U+0300", "à">>, <<"a", "U+0301", "á">>, <<"a", "U+0302", "â">>,
      <<"a", "U+0303", "ã">>, <<"a", "combining-diaeresis", "ä">>,
      <<"a", "U+030A", "å">>, <<"c", "U+0327", "ç">>, <<"e", "U+0300", "è">>,
      <<"e", "U+0301", "é">>, <<"e", "U+0302", "ê">>,
      <<"e", "combining-diaeresis", "ë">>, <<"i", "U+0300", "ì">>,
      <<"i", "U+0301", "í">>, <<"i", "U+0302", "î">>,
      <<"i", "combining-diaeresis", "ï">>, <<"n", "U+0303", "ñ">>,
      <<"o", "U+0300", "ò">>, <<"o", "U+0301", "ó">>, <<"o", "U+0302", "ô">>,
      <<"o", "U+0303", "õ">>, <<"o", "combining-diaeresis", "ö">>,
      <<"u", "U+0300", "ù">>, <<"u", "U+0301", "ú">>, <<"u", "U+0302", "û">>,
      <<"u", "combining-diaeresis", "ü">>, <<"y", "U+0301", "ý">>,
      <<"y", "combining-diaeresis", "ÿ">>, <<"A", "U+0304", "U+0100">>,
      <<"a", "U+0304", "U+0101">>, <<"A", "U+0306", "U+0102">>,
      <<"a", "U+0306", "U+0103">>, <<"A", "U+0328", "U+0104">>,
      <<"a", "U+0328", "U+0105">>, <<"C", "U+0301", "U+0106">>,
      <<"c", "U+0301", "U+0107">>, <<"C", "U+0302", "U+0108">>,
      <<"c", "U+0302", "U+0109">>, <<"C", "U+0307", "U+010A">>,
      <<"c", "U+0307", "U+010B">>, <<"C", "U+030C", "U+010C">>,
      <<"c", "U+030C", "U+010D">>, <<"D", "U+030C", "U+010E">>,
      <<"d", "U+030C", "U+010F">>, <<"E", "U+0304", "U+0112">>,
      <<"e", "U+0304", "U+0113">>, <<"E", "U+0306", "U+0114">>,
      <<"e", "U+0306", "U+0115">>, <<"E", "U+0307", "U+0116">>,
      <<"e", "U+0307", "U+0117">>, <<"E", "U+0328", "U+0118">>,
      <<"e", "U+0328", "U+0119">>, <<"E", "U+030C", "U+011A">>,
      <<"e", "U+030C", "U+011B">>, <<"G", "U+0302", "U+011C">>,
      <<"g", "U+0302", "U+011D">>, <<"G", "U+0306", "U+011E">>,
      <<"g", "U+0306", "U+011F">>, <<"G", "U+0307", "U+0120">>,
      <<"g", "U+0307", "U+0121">>, <<"G", "U+0327", "U+0122">>,
      <<"g", "U+0327", "U+0123">>, <<"H", "U+0302", "U+0124">>,
      <<"h", "U+0302", "U+0125">>, <<"I", "U+0303", "U+0128">>,
      <<"i", "U+0303", "U+0129">>, <<"I", "U+0304", "U+012A">>,
      <<"i", "U+0304", "U+012B">>, <<"I", "U+0306", "U+012C">>,
      <<"i", "U+0306", "U+012D">>, <<"I", "U+0328", "U+012E">>,
      <<"i", "U+0328", "U+012F">>, <<"I", "U+0307", "U+0130">>,
      <<"J", "U+0302", "U+0134">>, <<"j", "U+0302", "U+0135">>,
      <<"K", "U+0327", "U+0136">>, <<"k", "U+0327", "U+0137">>,
      <<"L", "U+0301", "U+0139">>, <<"l", "U+0301", "U+013A">>,
      <<"L", "U+0327", "U+013B">>, <<"l", "U+0327", "U+013C">>,
      <<"L", "U+030C", "U+013D">>, <<"l", "U+030C", "U+013E">>,
      <<"N", "U+0301", "U+0143">>, <<"n", "U+0301", "U+0144">>,
      <<"N", "U+0327", "U+0145">>, <<"n", "U+0327", "U+0146">>,
      <<"N", "U+030C", "U+0147">>, <<"n", "U+030C", "U+0148">>,
      <<"O", "U+0304", "U+014C">>, <<"o", "U+0304", "U+014D">>,
      <<"O", "U+0306", "U+014E">>, <<"o", "U+0306", "U+014F">>,
      <<"O", "U+030B", "U+0150">>, <<"o", "U+030B", "U+0151">>,
      <<"R", "U+0301", "U+0154">>, <<"r", "U+0301", "U+0155">>,
      <<"R", "U+0327", "U+0156">>, <<"r", "U+0327", "U+0157">>,
      <<"R", "U+030C", "U+0158">>, <<"r", "U+030C", "U+0159">>,
      <<"S", "U+0301", "U+015A">>, <<"s", "U+0301", "U+015B">>,
      <<"S", "U+0302", "U+015C">>, <<"s", "U+0302", "U+015D">>,
      <<"S", "U+0327", "U+015E">>, <<"s", "U+0327", "U+015F">>,
      <<"S", "U+030C", "U+0160">>, <<"s", "U+030C", "U+0161">>,
      <<"T", "U+0327", "U+0162">>, <<"t", "U+0327", "U+0163">>,
      <<"T", "U+030C", "U+0164">>, <<"t", "U+030C", "U+0165">>,
      <<"U", "U+0303", "U+0168">>, <<"u", "U+0303", "U+0169">>,
      <<"U", "U+0304", "U+016A">>, <<"u", "U+0304", "U+016B">>,
      <<"U", "U+0306", "U+016C">>, <<"u", "U+0306", "U+016D">>,
      <<"U", "U+030A", "U+016E">>, <<"u", "U+030A", "U+016F">>,
      <<"U", "U+030B", "U+0170">>, <<"u", "U+030B", "U+0171">>,
      <<"U", "U+0328", "U+0172">>, <<"u", "U+0328", "U+0173">>,
      <<"W", "U+0302", "U+0174">>, <<"w", "U+0302", "U+0175">>,
      <<"Y", "U+0302", "U+0176">>, <<"y", "U+0302", "U+0177">>,
      <<"Y", "combining-diaeresis", "U+0178">>, <<"Z", "U+0301", "U+0179">>,
      <<"z", "U+0301", "U+017A">>, <<"Z", "U+0307", "U+017B">>,
      <<"z", "U+0307", "U+017C">>, <<"Z", "U+030C", "U+017D">>,
      <<"z", "U+030C", "U+017E">>, <<"O", "U+031B", "U+01A0">>,
      <<"o", "U+031B", "U+01A1">>, <<"U", "U+031B", "U+01AF">>,
      <<"u", "U+031B", "U+01B0">>, <<"A", "U+030C", "U+01CD">>,
      <<"a", "U+030C", "U+01CE">>, <<"I", "U+030C", "U+01CF">>,
      <<"i", "U+030C", "U+01D0">>, <<"O", "U+030C", "U+01D1">>,
      <<"o", "U+030C", "U+01D2">>, <<"U", "U+030C", "U+01D3">>,
      <<"u", "U+030C", "U+01D4">>, <<"Ü", "U+0304", "U+01D5">>,
      <<"ü", "U+0304", "U+01D6">>, <<"Ü", "U+0301", "U+01D7">>,
      <<"ü", "U+0301", "U+01D8">>, <<"Ü", "U+030C", "U+01D9">>,
      <<"ü", "U+030C", "U+01DA">>, <<"Ü", "U+0300", "U+01DB">>,
      <<"ü", "U+0300", "U+01DC">>, <<"Ä", "U+0304", "U+01DE">>,
      <<"ä", "U+0304", "U+01DF">>, <<"U+0226", "U+0304", "U+01E0">>,
      <<"U+0227", "U+0304", "U+01E1">>, <<"Æ", "U+0304", "U+01E2">>,
      <<"æ", "U+0304", "U+01E3">>, <<"G", "U+030C", "U+01E6">>,
      <<"g", "U+030C", "U+01E7">>, <<"K", "U+030C", "U+01E8">>,
      <<"k", "U+030C", "U+01E9">>, <<"O", "U+0328", "U+01EA">>,
      <<"o", "U+0328", "U+01EB">>, <<"U+01EA", "U+0304", "U+01EC">>,
      <<"U+01EB", "U+0304", "U+01ED">>, <<"U+01B7", "U+030C", "U+01EE">>,
      <<"U+0292", "U+030C", "U+01EF">>, <<"j", "U+030C", "U+01F0">>,
      <<"G", "U+0301", "U+01F4">>, <<"g", "U+0301", "U+01F5">>,
      <<"N", "U+0300", "U+01F8">>, <<"n", "U+0300", "U+01F9">>,
      <<"Å", "U+0301", "U+01FA">>, <<"å", "U+0301", "U+01FB">>,
      <<"Æ", "U+0301", "U+01FC">>, <<"æ", "U+0301", "U+01FD">>,
      <<"Ø", "U+0301", "U+01FE">>, <<"ø", "U+0301", "U+01FF">>,
      <<"A", "U+030F", "U+0200">>, <<"a", "U+030F", "U+0201">>,
      <<"A", "U+0311", "U+0202">>, <<"a", "U+0311", "U+0203">>,
      <<"E", "U+030F", "U+0204">>, <<"e", "U+030F", "U+0205">>,
      <<"E", "U+0311", "U+0206">>, <<"e", "U+0311", "U+0207">>,
      <<"I", "U+030F", "U+0208">>, <<"i", "U+030F", "U+0209">>,
      <<"I", "U+0311", "U+020A">>, <<"i", "U+0311", "U+020B">>,
      <<"O", "U+030F", "U+020C">>, <<"o", "U+030F", "U+020D">>,
      <<"O", "U+0311", "U+020E">>, <<"o", "U+0311", "U+020F">>,
      <<"R", "U+030F", "U+0210">>, <<"r", "U+030F", "U+0211">>,
      <<"R", "U+0311", "U+0212">>, <<"r", "U+0311", "U+0213">>,
      <<"U", "U+030F", "U+0214">>, <<"u", "U+030F", "U+0215">>,
      <<"U", "U+0311", "U+0216">>, <<"u", "U+0311", "U+0217">>,
      <<"S", "U+0326", "U+0218">>, <<"s", "U+0326", "U+0219">>,
      <<"T", "U+0326", "U+021A">>, <<"t", "U+0326", "U+021B">>,
      <<"H", "U+030C", "U+021E">>, <<"h", "U+030C", "U+021F">>,
      <<"A", "U+0307", "U+0226">>, <<"a", "U+0307", "U+0227">>,
      <<"E", "U+0327", "U+0228">>, <<"e", "U+0327", "U+0229">>,
      <<"Ö", "U+0304", "U+022A">>, <<"ö", "U+0304", "U+022B">>,
      <<"Õ", "U+0304", "U+022C">>, <<"õ", "U+0304", "U+022D">>,
      <<"O", "U+0307", "U+022E">>, <<"o", "U+0307", "U+022F">>,
      <<"U+022E", "U+0304", "U+0230">>, <<"U+022F", "U+0304", "U+0231">>,
      <<"Y", "U+0304", "U+0232">>, <<"y", "U+0304", "U+0233">>,
      <<"¨", "U+0301", "U+0385">>, <<"U+0391", "U+0301", "U+0386">>,
      <<"U+0395", "U+0301", "U+0388">>, <<"U+0397", "U+0301", "U+0389">>,
      <<"U+0399", "U+0301", "U+038A">>, <<"U+039F", "U+0301", "U+038C">>,
      <<"U+03A5", "U+0301", "U+038E">>, <<"U+03A9", "U+0301", "U+038F">>,
      <<"U+03CA", "U+0301", "U+0390">>,
      <<"U+0399", "combining-diaeresis", "U+03AA">>,
      <<"U+03A5", "combining-diaeresis", "U+03AB">>,
      <<"U+03B1", "U+0301", "U+03AC">>, <<"U+03B5", "U+0301", "U+03AD">>,
      <<"U+03B7", "U+0301", "U+03AE">>, <<"U+03B9", "U+0301", "U+03AF">>,
      <<"U+03CB", "U+0301", "U+03B0">>,
      <<"U+03B9", "combining-diaeresis", "U+03CA">>,
      <<"U+03C5", "combining-diaeresis", "U+03CB">>,
      <<"U+03BF", "U+0301", "U+03CC">>, <<"U+03C5", "U+0301", "U+03CD">>,
      <<"U+03C9", "U+0301", "U+03CE">>, <<"U+03D2", "U+0301", "U+03D3">>,
      <<"U+03D2", "combining-diaeresis", "U+03D4">>,
      <<"U+0415", "U+0300", "U+0400">>,
      <<"U+0415", "combining-diaeresis", "U+0401">>,
      <<"U+0413", "U+0301", "U+0403">>,
      <<"U+0406", "combining-diaeresis", "U+0407">>,
      <<"U+041A", "U+0301", "U+040C">>, <<"U+0418", "U+0300", "U+040D">>,
      <<"U+0423", "U+0306", "U+040E">>, <<"U+0418", "U+0306", "U+0419">>,
      <<"U+0438", "U+0306", "U+0439">>, <<"U+0435", "U+0300", "U+0450">>,
      <<"U+0435", "combining-diaeresis", "U+0451">>,
      <<"U+0433", "U+0301", "U+0453">>,
      <<"U+0456", "combining-diaeresis", "U+0457">>,
      <<"U+043A", "U+0301", "U+045C">>, <<"U+0438", "U+0300", "U+045D">>,
      <<"U+0443", "U+0306", "U+045E">>, <<"U+0474", "U+030F", "U+0476">>,
      <<"U+0475", "U+030F", "U+0477">>, <<"U+0416", "U+0306", "U+04C1">>,
      <<"U+0436", "U+0306", "U+04C2">>, <<"U+0410", "U+0306", "U+04D0">>,
      <<"U+0430", "U+0306", "U+04D1">>,
      <<"U+0410", "combining-diaeresis", "U+04D2">>,
      <<"U+0430", "combining-diaeresis", "U+04D3">>,
      <<"U+0415", "U+0306", "U+04D6">>, <<"U+0435", "U+0306", "U+04D7">>,
      <<"U+04D8", "combining-diaeresis", "U+04DA">>,
      <<"U+04D9", "combining-diaeresis", "U+04DB">>,
      <<"U+0416", "combining-diaeresis", "U+04DC">>,
      <<"U+0436", "combining-diaeresis", "U+04DD">>,
      <<"U+0417", "combining-diaeresis", "U+04DE">>,
      <<"U+0437", "combining-diaeresis", "U+04DF">>,
      <<"U+0418", "U+0304", "U+04E2">>, <<"U+0438", "U+0304", "U+04E3">>,
      <<"U+0418", "combining-diaeresis", "U+04E4">>,
      <<"U+0438", "combining-diaeresis", "U+04E5">>,
      <<"U+041E", "combining-diaeresis", "U+04E6">>,
      <<"U+043E", "combining-diaeresis", "U+04E7">>,
      <<"U+04E8", "combining-diaeresis", "U+04EA">>,
      <<"U+04E9", "combining-diaeresis", "U+04EB">>,
      <<"U+042D", "combining-diaeresis", "U+04EC">>,
      <<"U+044D", "combining-diaeresis", "U+04ED">>,
      <<"U+0423", "U+0304", "U+04EE">>, <<"U+0443", "U+0304", "U+04EF">>,
      <<"U+0423", "combining-diaeresis", "U+04F0">>,
      <<"U+0443", "combining-diaeresis", "U+04F1">>,
      <<"U+0423", "U+030B", "U+04F2">>, <<"U+0443", "U+030B", "U+04F3">>,
      <<"U+0427", "combining-diaeresis", "U+04F4">>,
      <<"U+0447", "combining-diaeresis", "U+04F5">>,
      <<"U+042B", "combining-diaeresis", "U+04F8">>,
      <<"U+044B", "combining-diaeresis", "U+04F9">>,
      <<"U+0627", "U+0653", "U+0622">>, <<"U+0627", "U+0654", "U+0623">>,
      <<"U+0648", "U+0654", "U+0624">>, <<"U+0627", "U+0655", "U+0625">>,
      <<"U+064A", "U+0654", "U+0626">>, <<"U+06D5", "U+0654", "U+06C0">>,
      <<"U+06C1", "U+0654", "U+06C2">>, <<"U+06D2", "U+0654", "U+06D3">>,
      <<"U+0928", "U+093C", "U+0929">>, <<"U+0930", "U+093C", "U+0931">>,
      <<"U+0933", "U+093C", "U+0934">>, <<"U+09C7", "U+09BE", "U+09CB">>,
      <<"U+09C7", "U+09D7", "U+09CC">>, <<"U+0B47", "U+0B56", "U+0B48">>,
      <<"U+0B47", "U+0B3E", "U+0B4B">>, <<"U+0B47", "U+0B57", "U+0B4C">>,
      <<"U+0B92", "U+0BD7", "U+0B94">>, <<"U+0BC6", "U+0BBE", "U+0BCA">>,
      <<"U+0BC7", "U+0BBE", "U+0BCB">>, <<"U+0BC6", "U+0BD7", "U+0BCC">>,
      <<"U+0C46", "U+0C56", "U+0C48">>, <<"U+0CBF", "U+0CD5", "U+0CC0">>,
      <<"U+0CC6", "U+0CD5", "U+0CC7">>, <<"U+0CC6", "U+0CD6", "U+0CC8">>,
      <<"U+0CC6", "U+0CC2", "U+0CCA">>, <<"U+0CCA", "U+0CD5", "U+0CCB">>,
      <<"U+0D46", "U+0D3E", "U+0D4A">>, <<"U+0D47", "U+0D3E", "U+0D4B">>,
      <<"U+0D46", "U+0D57", "U+0D4C">>, <<"U+0DD9", "U+0DCA", "U+0DDA">>,
      <<"U+0DD9", "U+0DCF", "U+0DDC">>, <<"U+0DDC", "U+0DCA", "U+0DDD">>,
      <<"U+0DD9", "U+0DDF", "U+0DDE">>, <<"U+1025", "U+102E", "U+1026">>,
      <<"U+1B05", "U+1B35", "U+1B06">>, <<"U+1B07", "U+1B35", "U+1B08">>,
      <<"U+1B09", "U+1B35", "U+1B0A">>, <<"U+1B0B", "U+1B35", "U+1B0C">>,
      <<"U+1B0D", "U+1B35", "U+1B0E">>, <<"U+1B11", "U+1B35", "U+1B12">>,
      <<"U+1B3A", "U+1B35", "U+1B3B">>, <<"U+1B3C", "U+1B35", "U+1B3D">>,
      <<"U+1B3E", "U+1B35", "U+1B40">>, <<"U+1B3F", "U+1B35", "U+1B41">>,
      <<"U+1B42", "U+1B35", "U+1B43">>, <<"A", "U+0325", "U+1E00">>,
      <<"a", "U+0325", "U+1E01">>, <<"B", "U+0307", "U+1E02">>,
      <<"b", "U+0307", "U+1E03">>, <<"B", "U+0323", "U+1E04">>,
      <<"b", "U+0323", "U+1E05">>, <<"B", "U+0331", "U+1E06">>,
      <<"b", "U+0331", "U+1E07">>, <<"Ç", "U+0301", "U+1E08">>,
      <<"ç", "U+0301", "U+1E09">>, <<"D", "U+0307", "U+1E0A">>,
      <<"d", "U+0307", "U+1E0B">>, <<"D", "U+0323", "U+1E0C">>,
      <<"d", "U+0323", "U+1E0D">>, <<"D", "U+0331", "U+1E0E">>,
      <<"d", "U+0331", "U+1E0F">>, <<"D", "U+0327", "U+1E10">>,
      <<"d", "U+0327", "U+1E11">>, <<"D", "U+032D", "U+1E12">>,
      <<"d", "U+032D", "U+1E13">>, <<"U+0112", "U+0300", "U+1E14">>,
      <<"U+0113", "U+0300", "U+1E15">>, <<"U+0112", "U+0301", "U+1E16">>,
      <<"U+0113", "U+0301", "U+1E17">>, <<"E", "U+032D", "U+1E18">>,
      <<"e", "U+032D", "U+1E19">>, <<"E", "U+0330", "U+1E1A">>,
      <<"e", "U+0330", "U+1E1B">>, <<"U+0228", "U+0306", "U+1E1C">>,
      <<"U+0229", "U+0306", "U+1E1D">>, <<"F", "U+0307", "U+1E1E">>,
      <<"f", "U+0307", "U+1E1F">>, <<"G", "U+0304", "U+1E20">>,
      <<"g", "U+0304", "U+1E21">>, <<"H", "U+0307", "U+1E22">>,
      <<"h", "U+0307", "U+1E23">>, <<"H", "U+0323", "U+1E24">>,
      <<"h", "U+0323", "U+1E25">>, <<"H", "combining-diaeresis", "U+1E26">>,
      <<"h", "combining-diaeresis", "U+1E27">>, <<"H", "U+0327", "U+1E28">>,
      <<"h", "U+0327", "U+1E29">>, <<"H", "U+032E", "U+1E2A">>,
      <<"h", "U+032E", "U+1E2B">>, <<"I", "U+0330", "U+1E2C">>,
      <<"i", "U+0330", "U+1E2D">>, <<"Ï", "U+0301", "U+1E2E">>,
      <<"ï", "U+0301", "U+1E2F">>, <<"K", "U+0301", "U+1E30">>,
      <<"k", "U+0301", "U+1E31">>, <<"K", "U+0323", "U+1E32">>,
      <<"k", "U+0323", "U+1E33">>, <<"K", "U+0331", "U+1E34">>,
      <<"k", "U+0331", "U+1E35">>, <<"L", "U+0323", "U+1E36">>,
      <<"l", "U+0323", "U+1E37">>, <<"U+1E36", "U+0304", "U+1E38">>,
      <<"U+1E37", "U+0304", "U+1E39">>, <<"L", "U+0331", "U+1E3A">>,
      <<"l", "U+0331", "U+1E3B">>, <<"L", "U+032D", "U+1E3C">>,
      <<"l", "U+032D", "U+1E3D">>, <<"M", "U+0301", "U+1E3E">>,
      <<"m", "U+0301", "U+1E3F">>, <<"M", "U+0307", "U+1E40">>,
      <<"m", "U+0307", "U+1E41">>, <<"M", "U+0323", "U+1E42">>,
      <<"m", "U+0323", "U+1E43">>, <<"N", "U+0307", "U+1E44">>,
      <<"n", "U+0307", "U+1E45">>, <<"N", "U+0323", "U+1E46">>,
      <<"n", "U+0323", "U+1E47">>, <<"N", "U+0331", "U+1E48">>,
      <<"n", "U+0331", "U+1E49">>, <<"N", "U+032D", "U+1E4A">>,
      <<"n", "U+032D", "U+1E4B">>, <<"Õ", "U+0301", "U+1E4C">>,
      <<"õ", "U+0301", "U+1E4D">>, <<"Õ", "combining-diaeresis", "U+1E4E">>,
      <<"õ", "combining-diaeresis", "U+1E4F">>,
      <<"U+014C", "U+0300", "U+1E50">>, <<"U+014D", "U+0300", "U+1E51">>,
      <<"U+014C", "U+0301", "U+1E52">>, <<"U+014D", "U+0301", "U+1E53">>,
      <<"P", "U+0301", "U+1E54">>, <<"p", "U+0301", "U+1E55">>,
      <<"P", "U+0307", "U+1E56">>, <<"p", "U+0307", "U+1E57">>,
      <<"R", "U+0307", "U+1E58">>, <<"r", "U+0307", "U+1E59">>,
      <<"R", "U+0323", "U+1E5A">>, <<"r", "U+0323", "U+1E5B">>,
      <<"U+1E5A", "U+0304", "U+1E5C">>, <<"U+1E5B", "U+0304", "U+1E5D">>,
      <<"R", "U+0331", "U+1E5E">>, <<"r", "U+0331", "U+1E5F">>,
      <<"S", "U+0307", "U+1E60">>, <<"s", "U+0307", "U+1E61">>,
      <<"S", "U+0323", "U+1E62">>, <<"s", "U+0323", "U+1E63">>,
      <<"U+015A", "U+0307", "U+1E64">>, <<"U+015B", "U+0307", "U+1E65">>,
      <<"U+0160", "U+0307", "U+1E66">>, <<"U+0161", "U+0307", "U+1E67">>,
      <<"U+1E62", "U+0307", "U+1E68">>, <<"U+1E63", "U+0307", "U+1E69">>,
      <<"T", "U+0307", "U+1E6A">>, <<"t", "U+0307", "U+1E6B">>,
      <<"T", "U+0323", "U+1E6C">>, <<"t", "U+0323", "U+1E6D">>,
      <<"T", "U+0331", "U+1E6E">>, <<"t", "U+0331", "U+1E6F">>,
      <<"T", "U+032D", "U+1E70">>, <<"t", "U+032D", "U+1E71">>,
      <<"U", "U+0324", "U+1E72">>, <<"u", "U+0324", "U+1E73">>,
      <<"U", "U+0330", "U+1E74">>, <<"u", "U+0330", "U+1E75">>,
      <<"U", "U+032D", "U+1E76">>, <<"u", "U+032D", "U+1E77">>,
      <<"U+0168", "U+0301", "U+1E78">>, <<"U+0169", "U+0301", "U+1E79">>,
      <<"U+016A", "combining-diaeresis", "U+1E7A">>,
      <<"U+016B", "combining-diaeresis", "U+1E7B">>,
      <<"V", "U+0303", "U+1E7C">>, <<"v", "U+0303", "U+1E7D">>,
      <<"V", "U+0323", "U+1E7E">>, <<"v", "U+0323", "U+1E7F">>,
      <<"W", "U+0300", "U+1E80">>, <<"w", "U+0300", "U+1E81">>,
      <<"W", "U+0301", "U+1E82">>, <<"w", "U+0301", "U+1E83">>,
      <<"W", "combining-diaeresis", "U+1E84">>,
      <<"w", "combining-diaeresis", "U+1E85">>, <<"W", "U+0307", "U+1E86">>,
      <<"w", "U+0307", "U+1E87">>, <<"W", "U+0323", "U+1E88">>,
      <<"w", "U+0323", "U+1E89">>, <<"X", "U+0307", "U+1E8A">>,
      <<"x", "U+0307", "U+1E8B">>, <<"X", "combining-diaeresis", "U+1E8C">>,
      <<"x", "combining-diaeresis", "U+1E8D">>, <<"Y", "U+0307", "U+1E8E">>,
      <<"y", "U+0307", "U+1E8F">>, <<"Z", "U+0302", "U+1E90">>,
      <<"z", "U+0302", "U+1E91">>, <<"Z", "U+0323", "U+1E92">>,
      <<"z", "U+0323", "U+1E93">>, <<"Z", "U+0331", "U+1E94">>,
      <<"z", "U+0331", "U+1E95">>, <<"h", "U+0331", "U+1E96">>,
      <<"t", "combining-diaeresis", "U+1E97">>, <<"w", "U+030A", "U+1E98">>,
      <<"y", "U+030A", "U+1E99">>, <<"U+017F", "U+0307", "U+1E9B">>,
      <<"A", "U+0323", "U+1EA0">>, <<"a", "U+0323", "U+1EA1">>,
      <<"A", "U+0309", "U+1EA2">>, <<"a", "U+0309", "U+1EA3">>,
      <<"Â", "U+0301", "U+1EA4">>, <<"â", "U+0301", "U+1EA5">>,
      <<"Â", "U+0300", "U+1EA6">>, <<"â", "U+0300", "U+1EA7">>,
      <<"Â", "U+0309", "U+1EA8">>, <<"â", "U+0309", "U+1EA9">>,
      <<"Â", "U+0303", "U+1EAA">>, <<"â", "U+0303", "U+1EAB">>,
      <<"U+1EA0", "U+0302", "U+1EAC">>, <<"U+1EA1", "U+0302", "U+1EAD">>,
      <<"U+0102", "U+0301", "U+1EAE">>, <<"U+0103", "U+0301", "U+1EAF">>,
      <<"U+0102", "U+0300", "U+1EB0">>, <<"U+0103", "U+0300", "U+1EB1">>,
      <<"U+0102", "U+0309", "U+1EB2">>, <<"U+0103", "U+0309", "U+1EB3">>,
      <<"U+0102", "U+0303", "U+1EB4">>, <<"U+0103", "U+0303", "U+1EB5">>,
      <<"U+1EA0", "U+0306", "U+1EB6">>, <<"U+1EA1", "U+0306", "U+1EB7">>,
      <<"E", "U+0323", "U+1EB8">>, <<"e", "U+0323", "U+1EB9">>,
      <<"E", "U+0309", "U+1EBA">>, <<"e", "U+0309", "U+1EBB">>,
      <<"E", "U+0303", "U+1EBC">>, <<"e", "U+0303", "U+1EBD">>,
      <<"Ê", "U+0301", "U+1EBE">>, <<"ê", "U+0301", "U+1EBF">>,
      <<"Ê", "U+0300", "U+1EC0">>, <<"ê", "U+0300", "U+1EC1">>,
      <<"Ê", "U+0309", "U+1EC2">>, <<"ê", "U+0309", "U+1EC3">>,
      <<"Ê", "U+0303", "U+1EC4">>, <<"ê", "U+0303", "U+1EC5">>,
      <<"U+1EB8", "U+0302", "U+1EC6">>, <<"U+1EB9", "U+0302", "U+1EC7">>,
      <<"I", "U+0309", "U+1EC8">>, <<"i", "U+0309", "U+1EC9">>,
      <<"I", "U+0323", "U+1ECA">>, <<"i", "U+0323", "U+1ECB">>,
      <<"O", "U+0323", "U+1ECC">>, <<"o", "U+0323", "U+1ECD">>,
      <<"O", "U+0309", "U+1ECE">>, <<"o", "U+0309", "U+1ECF">>,
      <<"Ô", "U+0301", "U+1ED0">>, <<"ô", "U+0301", "U+1ED1">>,
      <<"Ô", "U+0300", "U+1ED2">>, <<"ô", "U+0300", "U+1ED3">>,
      <<"Ô", "U+0309", "U+1ED4">>, <<"ô", "U+0309", "U+1ED5">>,
      <<"Ô", "U+0303", "U+1ED6">>, <<"ô", "U+0303", "U+1ED7">>,
      <<"U+1ECC", "U+0302", "U+1ED8">>, <<"U+1ECD", "U+0302", "U+1ED9">>,
      <<"U+01A0", "U+0301", "U+1EDA">>, <<"U+01A1", "U+0301", "U+1EDB">>,
      <<"U+01A0", "U+0300", "U+1EDC">>, <<"U+01A1", "U+0300", "U+1EDD">>,
      <<"U+01A0", "U+0309", "U+1EDE">>, <<"U+01A1", "U+0309", "U+1EDF">>,
      <<"U+01A0", "U+0303", "U+1EE0">>, <<"U+01A1", "U+0303", "U+1EE1">>,
      <<"U+01A0", "U+0323", "U+1EE2">>, <<"U+01A1", "U+0323", "U+1EE3">>,
      <<"U", "U+0323", "U+1EE4">>, <<"u", "U+0323", "U+1EE5">>,
      <<"U", "U+0309", "U+1EE6">>, <<"u", "U+0309", "U+1EE7">>,
      <<"U+01AF", "U+0301", "U+1EE8">>, <<"U+01B0", "U+0301", "U+1EE9">>,
      <<"U+01AF", "U+0300", "U+1EEA">>, <<"U+01B0", "U+0300", "U+1EEB">>,
      <<"U+01AF", "U+0309", "U+1EEC">>, <<"U+01B0", "U+0309", "U+1EED">>,
      <<"U+01AF", "U+0303", "U+1EEE">>, <<"U+01B0", "U+0303", "U+1EEF">>,
      <<"U+01AF", "U+0323", "U+1EF0">>, <<"U+01B0", "U+0323", "U+1EF1">>,
      <<"Y", "U+0300", "U+1EF2">>, <<"y", "U+0300", "U+1EF3">>,
      <<"Y", "U+0323", "U+1EF4">>, <<"y", "U+0323", "U+1EF5">>,
      <<"Y", "U+0309", "U+1EF6">>, <<"y", "U+0309", "U+1EF7">>,
      <<"Y", "U+0303", "U+1EF8">>, <<"y", "U+0303", "U+1EF9">>,
      <<"U+03B1", "U+0313", "U+1F00">>, <<"U+03B1", "U+0314", "U+1F01">>,
      <<"U+1F00", "U+0300", "U+1F02">>, <<"U+1F01", "U+0300", "U+1F03">>,
      <<"U+1F00", "U+0301", "U+1F04">>, <<"U+1F01", "U+0301", "U+1F05">>,
      <<"U+1F00", "U+0342", "U+1F06">>, <<"U+1F01", "U+0342", "U+1F07">>,
      <<"U+0391", "U+0313", "U+1F08">>, <<"U+0391", "U+0314", "U+1F09">>,
      <<"U+1F08", "U+0300", "U+1F0A">>, <<"U+1F09", "U+0300", "U+1F0B">>,
      <<"U+1F08", "U+0301", "U+1F0C">>, <<"U+1F09", "U+0301", "U+1F0D">>,
      <<"U+1F08", "U+0342", "U+1F0E">>, <<"U+1F09", "U+0342", "U+1F0F">>,
      <<"U+03B5", "U+0313", "U+1F10">>, <<"U+03B5", "U+0314", "U+1F11">>,
      <<"U+1F10", "U+0300", "U+1F12">>, <<"U+1F11", "U+0300", "U+1F13">>,
      <<"U+1F10", "U+0301", "U+1F14">>, <<"U+1F11", "U+0301", "U+1F15">>,
      <<"U+0395", "U+0313", "U+1F18">>, <<"U+0395", "U+0314", "U+1F19">>,
      <<"U+1F18", "U+0300", "U+1F1A">>, <<"U+1F19", "U+0300", "U+1F1B">>,
      <<"U+1F18", "U+0301", "U+1F1C">>, <<"U+1F19", "U+0301", "U+1F1D">>,
      <<"U+03B7", "U+0313", "U+1F20">>, <<"U+03B7", "U+0314", "U+1F21">>,
      <<"U+1F20", "U+0300", "U+1F22">>, <<"U+1F21", "U+0300", "U+1F23">>,
      <<"U+1F20", "U+0301", "U+1F24">>, <<"U+1F21", "U+0301", "U+1F25">>,
      <<"U+1F20", "U+0342", "U+1F26">>, <<"U+1F21", "U+0342", "U+1F27">>,
      <<"U+0397", "U+0313", "U+1F28">>, <<"U+0397", "U+0314", "U+1F29">>,
      <<"U+1F28", "U+0300", "U+1F2A">>, <<"U+1F29", "U+0300", "U+1F2B">>,
      <<"U+1F28", "U+0301", "U+1F2C">>, <<"U+1F29", "U+0301", "U+1F2D">>,
      <<"U+1F28", "U+0342", "U+1F2E">>, <<"U+1F29", "U+0342", "U+1F2F">>,
      <<"U+03B9", "U+0313", "U+1F30">>, <<"U+03B9", "U+0314", "U+1F31">>,
      <<"U+1F30", "U+0300", "U+1F32">>, <<"U+1F31", "U+0300", "U+1F33">>,
      <<"U+1F30", "U+0301", "U+1F34">>, <<"U+1F31", "U+0301", "U+1F35">>,
      <<"U+1F30", "U+0342", "U+1F36">>, <<"U+1F31", "U+0342", "U+1F37">>,
      <<"U+0399", "U+0313", "U+1F38">>, <<"U+0399", "U+0314", "U+1F39">>,
      <<"U+1F38", "U+0300", "U+1F3A">>, <<"U+1F39", "U+0300", "U+1F3B">>,
      <<"U+1F38", "U+0301", "U+1F3C">>, <<"U+1F39", "U+0301", "U+1F3D">>,
      <<"U+1F38", "U+0342", "U+1F3E">>, <<"U+1F39", "U+0342", "U+1F3F">>,
      <<"U+03BF", "U+0313", "U+1F40">>, <<"U+03BF", "U+0314", "U+1F41">>,
      <<"U+1F40", "U+0300", "U+1F42">>, <<"U+1F41", "U+0300", "U+1F43">>,
      <<"U+1F40", "U+0301", "U+1F44">>, <<"U+1F41", "U+0301", "U+1F45">>,
      <<"U+039F", "U+0313", "U+1F48">>, <<"U+039F", "U+0314", "U+1F49">>,
      <<"U+1F48", "U+0300", "U+1F4A">>, <<"U+1F49", "U+0300", "U+1F4B">>,
      <<"U+1F48", "U+0301", "U+1F4C">>, <<"U+1F49", "U+0301", "U+1F4D">>,
      <<"U+03C5", "U+0313", "U+1F50">>, <<"U+03C5", "U+0314", "U+1F51">>,
      <<"U+1F50", "U+0300", "U+1F52">>, <<"U+1F51", "U+0300", "U+1F53">>,
      <<"U+1F50", "U+0301", "U+1F54">>, <<"U+1F51", "U+0301", "U+1F55">>,
      <<"U+1F50", "U+0342", "U+1F56">>, <<"U+1F51", "U+0342", "U+1F57">>,
      <<"U+03A5", "U+0314", "U+1F59">>, <<"U+1F59", "U+0300", "U+1F5B">>,
      <<"U+1F59", "U+0301", "U+1F5D">>, <<"U+1F59", "U+0342", "U+1F5F">>,
      <<"U+03C9", "U+0313", "U+1F60">>, <<"U+03C9", "U+0314", "U+1F61">>,
      <<"U+1F60", "U+0300", "U+1F62">>, <<"U+1F61", "U+0300", "U+1F63">>,
      <<"U+1F60", "U+0301", "U+1F64">>, <<"U+1F61", "U+0301", "U+1F65">>,
      <<"U+1F60", "U+0342", "U+1F66">>, <<"U+1F61", "U+0342", "U+1F67">>,
      <<"U+03A9", "U+0313", "U+1F68">>, <<"U+03A9", "U+0314", "U+1F69">>,
      <<"U+1F68", "U+0300", "U+1F6A">>, <<"U+1F69", "U+0300", "U+1F6B">>,
      <<"U+1F68", "U+0301", "U+1F6C">>, <<"U+1F69", "U+0301", "U+1F6D">>,
      <<"U+1F68", "U+0342", "U+1F6E">>, <<"U+1F69", "U+0342", "U+1F6F">>,
      <<"U+03B1", "U+0300", "U+1F70">>, <<"U+03B5", "U+0300", "U+1F72">>,
      <<"U+03B7", "U+0300", "U+1F74">>, <<"U+03B9", "U+0300", "U+1F76">>,
      <<"U+03BF", "U+0300", "U+1F78">>, <<"U+03C5", "U+0300", "U+1F7A">>,
      <<"U+03C9", "U+0300", "U+1F7C">>, <<"U+1F00", "U+0345", "U+1F80">>,
      <<"U+1F01", "U+0345", "U+1F81">>, <<"U+1F02", "U+0345", "U+1F82">>,
      <<"U+1F03", "U+0345", "U+1F83">>, <<"U+1F04", "U+0345", "U+1F84">>,
      <<"U+1F05", "U+0345", "U+1F85">>, <<"U+1F06", "U+0345", "U+1F86">>,
      <<"U+1F07", "U+0345", "U+1F87">>, <<"U+1F08", "U+0345", "U+1F88">>,
      <<"U+1F09", "U+0345", "U+1F89">>, <<"U+1F0A", "U+0345", "U+1F8A">>,
      <<"U+1F0B", "U+0345", "U+1F8B">>, <<"U+1F0C", "U+0345", "U+1F8C">>,
      <<"U+1F0D", "U+0345", "U+1F8D">>, <<"U+1F0E", "U+0345", "U+1F8E">>,
      <<"U+1F0F", "U+0345", "U+1F8F">>, <<"U+1F20", "U+0345", "U+1F90">>,
      <<"U+1F21", "U+0345", "U+1F91">>, <<"U+1F22", "U+0345", "U+1F92">>,
      <<"U+1F23", "U+0345", "U+1F93">>, <<"U+1F24", "U+0345", "U+1F94">>,
      <<"U+1F25", "U+0345", "U+1F95">>, <<"U+1F26", "U+0345", "U+1F96">>,
      <<"U+1F27", "U+0345", "U+1F97">>, <<"U+1F28", "U+0345", "U+1F98">>,
      <<"U+1F29", "U+0345", "U+1F99">>, <<"U+1F2A", "U+0345", "U+1F9A">>,
      <<"U+1F2B", "U+0345", "U+1F9B">>, <<"U+1F2C", "U+0345", "U+1F9C">>,
      <<"U+1F2D", "U+0345", "U+1F9D">>, <<"U+1F2E", "U+0345", "U+1F9E">>,
      <<"U+1F2F", "U+0345", "U+1F9F">>, <<"U+1F60", "U+0345", "U+1FA0">>,
      <<"U+1F61", "U+0345", "U+1FA1">>, <<"U+1F62", "U+0345", "U+1FA2">>,
      <<"U+1F63", "U+0345", "U+1FA3">>, <<"U+1F64", "U+0345", "U+1FA4">>,
      <<"U+1F65", "U+0345", "U+1FA5">>, <<"U+1F66", "U+0345", "U+1FA6">>,
      <<"U+1F67", "U+0345", "U+1FA7">>, <<"U+1F68", "U+0345", "U+1FA8">>,
      <<"U+1F69", "U+0345", "U+1FA9">>, <<"U+1F6A", "U+0345", "U+1FAA">>,
      <<"U+1F6B", "U+0345", "U+1FAB">>, <<"U+1F6C", "U+0345", "U+1FAC">>,
      <<"U+1F6D", "U+0345", "U+1FAD">>, <<"U+1F6E", "U+0345", "U+1FAE">>,
      <<"U+1F6F", "U+0345", "U+1FAF">>, <<"U+03B1", "U+0306", "U+1FB0">>,
      <<"U+03B1", "U+0304", "U+1FB1">>, <<"U+1F70", "U+0345", "U+1FB2">>,
      <<"U+03B1", "U+0345", "U+1FB3">>, <<"U+03AC", "U+0345", "U+1FB4">>,
      <<"U+03B1", "U+0342", "U+1FB6">>, <<"U+1FB6", "U+0345", "U+1FB7">>,
      <<"U+0391", "U+0306", "U+1FB8">>, <<"U+0391", "U+0304", "U+1FB9">>,
      <<"U+0391", "U+0300", "U+1FBA">>, <<"U+0391", "U+0345", "U+1FBC">>,
      <<"¨", "U+0342", "U+1FC1">>, <<"U+1F74", "U+0345", "U+1FC2">>,
      <<"U+03B7", "U+0345", "U+1FC3">>, <<"U+03AE", "U+0345", "U+1FC4">>,
      <<"U+03B7", "U+0342", "U+1FC6">>, <<"U+1FC6", "U+0345", "U+1FC7">>,
      <<"U+0395", "U+0300", "U+1FC8">>, <<"U+0397", "U+0300", "U+1FCA">>,
      <<"U+0397", "U+0345", "U+1FCC">>, <<"U+1FBF", "U+0300", "U+1FCD">>,
      <<"U+1FBF", "U+0301", "U+1FCE">>, <<"U+1FBF", "U+0342", "U+1FCF">>,
      <<"U+03B9", "U+0306", "U+1FD0">>, <<"U+03B9", "U+0304", "U+1FD1">>,
      <<"U+03CA", "U+0300", "U+1FD2">>, <<"U+03B9", "U+0342", "U+1FD6">>,
      <<"U+03CA", "U+0342", "U+1FD7">>, <<"U+0399", "U+0306", "U+1FD8">>,
      <<"U+0399", "U+0304", "U+1FD9">>, <<"U+0399", "U+0300", "U+1FDA">>,
      <<"U+1FFE", "U+0300", "U+1FDD">>, <<"U+1FFE", "U+0301", "U+1FDE">>,
      <<"U+1FFE", "U+0342", "U+1FDF">>, <<"U+03C5", "U+0306", "U+1FE0">>,
      <<"U+03C5", "U+0304", "U+1FE1">>, <<"U+03CB", "U+0300", "U+1FE2">>,
      <<"U+03C1", "U+0313", "U+1FE4">>, <<"U+03C1", "U+0314", "U+1FE5">>,
      <<"U+03C5", "U+0342", "U+1FE6">>, <<"U+03CB", "U+0342", "U+1FE7">>,
      <<"U+03A5", "U+0306", "U+1FE8">>, <<"U+03A5", "U+0304", "U+1FE9">>,
      <<"U+03A5", "U+0300", "U+1FEA">>, <<"U+03A1", "U+0314", "U+1FEC">>,
      <<"¨", "U+0300", "U+1FED">>, <<"U+1F7C", "U+0345", "U+1FF2">>,
      <<"U+03C9", "U+0345", "U+1FF3">>, <<"U+03CE", "U+0345", "U+1FF4">>,
      <<"U+03C9", "U+0342", "U+1FF6">>, <<"U+1FF6", "U+0345", "U+1FF7">>,
      <<"U+039F", "U+0300", "U+1FF8">>, <<"U+03A9", "U+0300", "U+1FFA">>,
      <<"U+03A9", "U+0345", "U+1FFC">>, <<"U+2190", "U+0338", "U+219A">>,
      <<"U+2192", "U+0338", "U+219B">>, <<"U+2194", "U+0338", "U+21AE">>,
      <<"U+21D0", "U+0338", "U+21CD">>, <<"U+21D4", "U+0338", "U+21CE">>,
      <<"U+21D2", "U+0338", "U+21CF">>, <<"U+2203", "U+0338", "U+2204">>,
      <<"U+2208", "U+0338", "U+2209">>, <<"U+220B", "U+0338", "U+220C">>,
      <<"U+2223", "U+0338", "U+2224">>, <<"U+2225", "U+0338", "U+2226">>,
      <<"U+223C", "U+0338", "U+2241">>, <<"U+2243", "U+0338", "U+2244">>,
      <<"U+2245", "U+0338", "U+2247">>, <<"U+2248", "U+0338", "U+2249">>,
      <<"=", "U+0338", "U+2260">>, <<"U+2261", "U+0338", "U+2262">>,
      <<"U+224D", "U+0338", "U+226D">>, <<"<", "U+0338", "U+226E">>,
      <<">", "U+0338", "U+226F">>, <<"U+2264", "U+0338", "U+2270">>,
      <<"U+2265", "U+0338", "U+2271">>, <<"U+2272", "U+0338", "U+2274">>,
      <<"U+2273", "U+0338", "U+2275">>, <<"U+2276", "U+0338", "U+2278">>,
      <<"U+2277", "U+0338", "U+2279">>, <<"U+227A", "U+0338", "U+2280">>,
      <<"U+227B", "U+0338", "U+2281">>, <<"U+2282", "U+0338", "U+2284">>,
      <<"U+2283", "U+0338", "U+2285">>, <<"U+2286", "U+0338", "U+2288">>,
      <<"U+2287", "U+0338", "U+2289">>, <<"U+22A2", "U+0338", "U+22AC">>,
      <<"U+22A8", "U+0338", "U+22AD">>, <<"U+22A9", "U+0338", "U+22AE">>,
      <<"U+22AB", "U+0338", "U+22AF">>, <<"U+227C", "U+0338", "U+22E0">>,
      <<"U+227D", "U+0338", "U+22E1">>, <<"U+2291", "U+0338", "U+22E2">>,
      <<"U+2292", "U+0338", "U+22E3">>, <<"U+22B2", "U+0338", "U+22EA">>,
      <<"U+22B3", "U+0338", "U+22EB">>, <<"U+22B4", "U+0338", "U+22EC">>,
      <<"U+22B5", "U+0338", "U+22ED">>, <<"U+304B", "U+3099", "U+304C">>,
      <<"U+304D", "U+3099", "U+304E">>, <<"U+304F", "U+3099", "U+3050">>,
      <<"U+3051", "U+3099", "U+3052">>, <<"U+3053", "U+3099", "U+3054">>,
      <<"U+3055", "U+3099", "U+3056">>, <<"U+3057", "U+3099", "U+3058">>,
      <<"U+3059", "U+3099", "U+305A">>, <<"U+305B", "U+3099", "U+305C">>,
      <<"U+305D", "U+3099", "U+305E">>, <<"U+305F", "U+3099", "U+3060">>,
      <<"U+3061", "U+3099", "U+3062">>, <<"U+3064", "U+3099", "U+3065">>,
      <<"U+3066", "U+3099", "U+3067">>, <<"U+3068", "U+3099", "U+3069">>,
      <<"U+306F", "U+3099", "U+3070">>, <<"U+306F", "U+309A", "U+3071">>,
      <<"U+3072", "U+3099", "U+3073">>, <<"U+3072", "U+309A", "U+3074">>,
      <<"U+3075", "U+3099", "U+3076">>, <<"U+3075", "U+309A", "U+3077">>,
      <<"U+3078", "U+3099", "U+3079">>, <<"U+3078", "U+309A", "U+307A">>,
      <<"U+307B", "U+3099", "U+307C">>, <<"U+307B", "U+309A", "U+307D">>,
      <<"U+3046", "U+3099", "U+3094">>, <<"U+309D", "U+3099", "U+309E">>,
      <<"U+30AB", "U+3099", "U+30AC">>, <<"U+30AD", "U+3099", "U+30AE">>,
      <<"U+30AF", "U+3099", "U+30B0">>, <<"U+30B1", "U+3099", "U+30B2">>,
      <<"U+30B3", "U+3099", "U+30B4">>, <<"U+30B5", "U+3099", "U+30B6">>,
      <<"U+30B7", "U+3099", "U+30B8">>, <<"U+30B9", "U+3099", "U+30BA">>,
      <<"U+30BB", "U+3099", "U+30BC">>, <<"U+30BD", "U+3099", "U+30BE">>,
      <<"U+30BF", "U+3099", "U+30C0">>, <<"U+30C1", "U+3099", "U+30C2">>,
      <<"U+30C4", "U+3099", "U+30C5">>, <<"U+30C6", "U+3099", "U+30C7">>,
      <<"U+30C8", "U+3099", "U+30C9">>, <<"U+30CF", "U+3099", "U+30D0">>,
      <<"U+30CF", "U+309A", "U+30D1">>, <<"U+30D2", "U+3099", "U+30D3">>,
      <<"U+30D2", "U+309A", "U+30D4">>, <<"U+30D5", "U+3099", "U+30D6">>,
      <<"U+30D5", "U+309A", "U+30D7">>, <<"U+30D8", "U+3099", "U+30D9">>,
      <<"U+30D8", "U+309A", "U+30DA">>, <<"U+30DB", "U+3099", "U+30DC">>,
      <<"U+30DB", "U+309A", "U+30DD">>, <<"U+30A6", "U+3099", "U+30F4">>,
      <<"U+30EF", "U+3099", "U+30F7">>, <<"U+30F0", "U+3099", "U+30F8">>,
      <<"U+30F1", "U+3099", "U+30F9">>, <<"U+30F2", "U+3099", "U+30FA">>,
      <<"U+30FD", "U+3099", "U+30FE">>, <<"U+11099", "U+110BA", "U+1109A">>,
      <<"U+1109B", "U+110BA", "U+1109C">>,
      <<"U+110A5", "U+110BA", "U+110AB">>,
      <<"U+11131", "U+11127", "U+1112E">>,
      <<"U+11132", "U+11127", "U+1112F">>,
      <<"U+11347", "U+1133E", "U+1134B">>,
      <<"U+11347", "U+11357", "U+1134C">>,
      <<"U+114B9", "U+114BA", "U+114BB">>,
      <<"U+114B9", "U+114B0", "U+114BC">>,
      <<"U+114B9", "U+114BD", "U+114BE">>,
      <<"U+115B8", "U+115AF", "U+115BA">>,
      <<"U+115B9", "U+115AF", "U+115BB">>,
      <<"U+11935", "U+11930", "U+11938">> >>

CompositionMap ==
    [p \in {<<CompositionPairs[i][1], CompositionPairs[i][2]>> : i \in DOMAIN CompositionPairs} |->
        CompositionPairs[CHOOSE i \in DOMAIN CompositionPairs :
                             /\ CompositionPairs[i][1] = p[1]
                             /\ CompositionPairs[i][2] = p[2]][3]]

\* normalize, first half: every character replaced by its decomposition
RECURSIVE DecomposeAll(_)
DecomposeAll(t) ==
    IF t = <<>> THEN <<>> ELSE Decompose(Head(t)) \o DecomposeAll(Tail(t))

\* character c put behind the characters of s, and moved in front of the
\* characters of a greater combining class that end s (a character of
\* class 0 is never moved and never passed)
RECURSIVE InsertInOrder(_, _)
InsertInOrder(s, c) ==
    IF \/ s = <<>>
       \/ CCC(c) = 0
       \/ CCC(s[Len(s)]) = 0
       \/ CCC(s[Len(s)]) <= CCC(c)
        THEN Append(s, c)
    ELSE Append(InsertInOrder(SubSeq(s, 1, Len(s) - 1), c), s[Len(s)])

\* the canonical ordering of the first n characters of t
RECURSIVE CanonicalOrder(_, _)
CanonicalOrder(t, n) ==
    IF n = 0 THEN <<>> ELSE InsertInOrder(CanonicalOrder(t, n - 1), t[n])

\* normalize, second half, for the character cur that stands for t[i]: the
\* characters from index i1 on are tried one after the other; comb is the
\* combining class of the last character that stayed; gives the composite
\* and the indices of the characters it took in
RECURSIVE ComposeWith(_, _, _, _, _)
ComposeWith(t, i1, comb, cur, taken) ==
    IF i1 > Len(t) THEN [code |-> cur, skipped |-> taken]
    ELSE LET comb1 == CCC(t[i1])
         IN  IF comb # 0 /\ comb1 = 0 THEN [code |-> cur, skipped |-> taken]
             ELSE IF comb # 0 /\ comb >= comb1 THEN ComposeWith(t, i1 + 1, comb, cur, taken)
             ELSE IF <<cur, t[i1]>> \in DOMAIN CompositionMap
                 THEN ComposeWith(t, i1 + 1, comb, CompositionMap[<<cur, t[i1]>>],
                                  taken \cup {i1})
             ELSE IF comb1 = 0 THEN [code |-> cur, skipped |-> taken]
             ELSE ComposeWith(t, i1 + 1, comb1, cur, taken)

\* normalize, second half: the characters of t from index i on, without
\* the ones at the indices in skipped, each composed with what follows it
RECURSIVE ComposeFrom(_, _, _)
ComposeFrom(t, i, skipped) ==
    IF i > Len(t) THEN <<>>
    ELSE IF i \in skipped THEN ComposeFrom(t, i + 1, skipped)
    ELSE IF IndexIn(HangulL, t[i]) > 0 /\ i + 1 <= Len(t) /\ IndexIn(HangulV, t[i + 1]) > 0
        THEN LET lv == ((IndexIn(HangulL, t[i]) - 1) * Len(HangulV)
                            + IndexIn(HangulV, t[i + 1]) - 1) * (Len(HangulT) + 1)
                 tx == IF i + 2 <= Len(t) THEN IndexIn(HangulT, t[i + 2]) ELSE 0
             IN  <<HangulSyllables[lv + tx + 1]>>
                     \o ComposeFrom(t, IF tx > 0 THEN i + 3 ELSE i + 2, skipped)
    ELSE LET r == ComposeWith(t, i + 1, 0, t[i], {})
         IN  <<r.code>> \o ComposeFrom(t, i + 1, skipped \cup r.skipped)

\* the characters that are the second of a pair that composes
ComposesAsSecond ==
    {CompositionPairs[i][2] : i \in DOMAIN CompositionPairs}
        \cup {HangulV[i] : i \in DOMAIN HangulV} \cup {HangulT[i] : i \in DOMAIN HangulT}

\* normalize leaves the text before character c and the text from c on
\* apart: c has no decomposition, is of combining class 0 and composes
\* with nothing before it
StartsStretch(c) ==
    /\ c \notin DOMAIN DecompositionMap
    /\ c \notin HangulSet
    /\ CCC(c) = 0
    /\ c \notin ComposesAsSecond

\* normalize on the characters lo .. hi of t, stretch by stretch
RECURSIVE NormalizeRange(_, _, _)
NormalizeRange(t, lo, hi) ==
    LET \* a stretch of text: decomposition, canonical ordering, composition
        NormalizeStretch(u) ==
            LET d == DecomposeAll(u) IN ComposeFrom(CanonicalOrder(d, Len(d)), 1, {})
        starts == {i \in (lo + 1)..hi : StartsStretch(t[i])}
        Dist(i) == IF 2 * i >= lo + hi THEN 2 * i - lo - hi ELSE lo + hi - 2 * i
        m      == CHOOSE i \in starts : \A j \in starts : Dist(i) <= Dist(j)
    IN  IF lo > hi THEN <<>>
        ELSE IF lo = hi /\ StartsStretch(t[lo]) THEN <<t[lo]>>
        ELSE IF starts = {} THEN NormalizeStretch(SubSeq(t, lo, hi))
        ELSE NormalizeRange(t, lo, m - 1) \o NormalizeRange(t, m, hi)

\* unicodedata.normalize("NFC", text)
NFC(t) == NormalizeRange(t, 1, Len(t))

\* str.splitlines(); LineBoundaries are the characters that end a line,
\* "\r" followed by "\n" ends one line
RECURSIVE SplitLines(_)
SplitLines(t) ==
    IF t = <<>> THEN <<>>
    ELSE LET LineBoundaries ==
            { "\n", "", "U+000B", "\f", "\r", "", "U+001C", "", "U+001D", "",
              "U+001E", "", "U+0085", "U+2028", "U+2029" }
             breaks == {i \in DOMAIN t : t[i] \in LineBoundaries}
         IN  IF breaks = {} THEN <<t>>
             ELSE LET k    == CHOOSE i \in breaks : \A j \in breaks : i <= j
                      next == IF t[k] = "\r" /\ k < Len(t) /\ t[k + 1] = "\n"
                                  THEN k + 2 ELSE k + 1
                  IN  <<SubSeq(t, 1, k - 1)>> \o SplitLines(SubSeq(t, next, Len(t)))

\* mutant of MergeLoop: a short line is joined to the buffer with a space
RECURSIVE MergeLoop_SpacedBuffer(_, _, _, _)
MergeLoop_SpacedBuffer(lines, i, merged, buffer) ==
    IF i > Len(lines)
        THEN IF buffer # <<>> THEN Append(merged, buffer) ELSE merged
    ELSE LET line == StripChars(lines[i])
         IN  IF Len(line) <= SHORT_LINE
                 THEN MergeLoop_SpacedBuffer(lines, i + 1, merged,
                          IF buffer = <<>> THEN line ELSE buffer \o <<" ">> \o line)
             ELSE IF buffer # <<>>
                 THEN MergeLoop_SpacedBuffer(lines, i + 1, Append(merged, buffer \o <<" ">> \o line), <<>>)
             ELSE MergeLoop_SpacedBuffer(lines, i + 1, Append(merged, line), <<>>)

\* the loop of _merge_broken_lines from line index i on
RECURSIVE MergeLoop(_, _, _, _)
MergeLoop(lines, i, merged, buffer) ==
    IF i > Len(lines)
        THEN IF buffer # <<>> THEN Append(merged, buffer) ELSE merged
    ELSE LET line == StripChars(lines[i])
         IN  IF Len(line) <= SHORT_LINE
                 THEN MergeLoop(lines, i + 1, merged, buffer \o line)
             ELSE IF buffer # <<>>
                 THEN MergeLoop(lines, i + 1, Append(merged, buffer \o <<" ">> \o line), <<>>)
             ELSE MergeLoop(lines, i + 1, Append(merged, line), <<>>)

\* OCRNormalizer._merge_broken_lines
MergeBrokenLines(lines) == MergeLoop(lines, 1, <<>>, <<>>)

\* str.split(): the maximal runs of non-whitespace characters
RECURSIVE SplitWords(_)
SplitWords(t) ==
    LET s == LStripChars(t)
    IN  IF s = <<>> THEN <<>>
        ELSE LET ws == {i \in DOMAIN s : IsWs(s[i])}
                 k  == IF ws = {} THEN Len(s) + 1
                       ELSE CHOOSE i \in ws : \A j \in ws : i <= j
             IN  <<SubSeq(s, 1, k - 1)>> \o SplitWords(SubSeq(s, k, Len(s)))

\* the length of the common run of a and b that starts at a[i] and b[j] and
\* stays below ahi and bhi
RunLen(a, b, i, j, ahi, bhi) ==
    LET n == IF ahi - i < bhi - j THEN ahi - i ELSE bhi - j
    IN  IF n <= 0 THEN 0
        ELSE CHOOSE k \in 0 .. n :
                 /\ k = n \/ a[i + k] # b[j + k]
                 /\ \A m \in 0 .. (k - 1) : a[i + m] = b[j + m]

\* difflib.SequenceMatcher.find_longest_match(alo, ahi, blo, bhi) of
\* SequenceMatcher(None, a, b), positions from 1, ahi and bhi excluded.
\* autojunk is on: when b has 200 characters or more, the characters that
\* occur in it more than len(b) // 100 + 1 times are popular and are left
\* out of the index b2j.  The search finds the longest common block made
\* of characters of b2j, the one starting earliest in a and then earliest
\* in b among the longest (alo, blo and size 0 when there is none); the
\* block is then extended to the left and to the right as long as the
\* characters are equal, popular or not.  The popular characters, the
\* lengths of the blocks and the best block are each computed once.
FindLongestMatch(a, b, alo, ahi, blo, bhi) ==
    LET Popular ==
            IF Len(b) < 200 THEN {}
            ELSE {b[k] : k \in {n \in DOMAIN b :
                      Cardinality({m \in DOMAIN b : b[m] = b[n]}) > Len(b) \div 100 + 1}}
        \* the length of the common block of characters of b2j that starts
        \* at a[c[1]], b[c[2]], for every start c
        IndexedLen(popular) ==
            [c \in {d \in (alo .. ahi - 1) \X (blo .. bhi - 1) :
                        a[d[1]] = b[d[2]] /\ b[d[2]] \notin popular} |->
                LET n == IF ahi - c[1] < bhi - c[2] THEN ahi - c[1] ELSE bhi - c[2]
                IN  CHOOSE k \in 0 .. n :
                        /\ \/ k = n
                           \/ a[c[1] + k] # b[c[2] + k]
                           \/ b[c[2] + k] \in popular
                        /\ \A m \in 0 .. (k - 1) :
                               a[c[1] + m] = b[c[2] + m] /\ b[c[2] + m] \notin popular]
        Best(len) ==
            IF DOMAIN len = {} THEN <<alo, blo>>
            ELSE CHOOSE c \in DOMAIN len :
                     \A d \in DOMAIN len :
                         \/ len[c] > len[d]
                         \/ /\ len[c] = len[d]
                            /\ (c[1] < d[1] \/ (c[1] = d[1] /\ c[2] <= d[2]))
        \* the length of the common run that ends just before a[i], b[j]
        LeftLen(i, j) ==
            LET n == IF i - alo < j - blo THEN i - alo ELSE j - blo
            IN  CHOOSE k \in 0 .. n :
                    /\ k = n \/ a[i - k - 1] # b[j - k - 1]
                    /\ \A m \in 1 .. k : a[i - m] = b[j - m]
        Extended(best, left) ==
            [i |-> best[1] - left, j |-> best[2] - left,
             size |-> left + RunLen(a, b, best[1], best[2], ahi, bhi)]
    IN  CHOOSE m \in
            { Extended(best, LeftLen(best[1], best[2])) : best \in
                { Best(len) : len \in
                    { IndexedLen(popular) : popular \in {Popular} } } } : TRUE

\* the sum of the sizes of difflib.SequenceMatcher.get_matching_blocks()
\* between a[alo..ahi) and b[blo..bhi)
RECURSIVE MatchedChars(_, _, _, _, _, _)
MatchedChars(a, b, alo, ahi, blo, bhi) ==
    IF alo >= ahi \/ blo >= bhi THEN 0
    ELSE LET m == FindLongestMatch(a, b, alo, ahi, blo, bhi)
         IN  IF m.size = 0 THEN 0
             ELSE m.size
                  + MatchedChars(a, b, alo, m.i, blo, m.j)
                  + MatchedChars(a, b, m.i + m.size, ahi, m.j + m.size, bhi)

\* difflib.SequenceMatcher(None, a, b).ratio() = 2.0 * matches / length,
\* as a fraction (1.0 when both are empty); b is the word that is indexed
Ratio(a, b) ==
    IF Len(a) + Len(b) = 0 THEN Frac(1, 1)
    ELSE Frac(2 * MatchedChars(a, b, 1, Len(a) + 1, 1, Len(b) + 1), Len(a) + Len(b))

\* difflib.SequenceMatcher(None, w, other).ratio() > 0.85
Similar(w, other) == GtPct(Ratio(w, other), SIMILARITY_THRESHOLD)

\* the keys of Counter(words): the distinct words in first-seen order
RECURSIVE CounterKeys(_)
CounterKeys(words) ==
    IF words = <<>> THEN <<>>
    ELSE LET before == CounterKeys(SubSeq(words, 1, Len(words) - 1))
             last   == words[Len(words)]
         IN  IF \E i \in DOMAIN before : before[i] = last THEN before
             ELSE Append(before, last)

\* counter[w]
CountOf(words, w) == Cardinality({i \in DOMAIN words : words[i] = w})

\* max(group, key=lambda x: counter[x]): the first member with the highest
\* count
Winner(group, words) ==
    LET k == CHOOSE i \in DOMAIN group :
                 /\ \A j \in DOMAIN group :
                        CountOf(words, group[i]) >= CountOf(words, group[j])
                 /\ \A j \in 1 .. (i - 1) :
                        CountOf(words, group[j]) < CountOf(words, group[i])
    IN  group[k]

\* the group list of _majority_vote for the word w: the keys similar to w,
\* in key order
Group(keys, w) == SelectSeq(keys, LAMBDA other : Similar(w, other))

\* one pass of the loop "for w in counter" of _majority_vote for the key
\* at index i; canon is the canonical dict so far (a function from words to
\* words)
VoteKeyStep(keys, words, canon, i) ==
    IF keys[i] \in DOMAIN canon THEN canon
    ELSE LET group   == Group(keys, keys[i])
             members == {group[j] : j \in DOMAIN group}
             winner  == Winner(group, words)
         IN  [g \in DOMAIN canon \cup members |->
                 IF g \in members THEN winner ELSE canon[g]]

\* the loop "for w in counter" of _majority_vote from key index i on
RECURSIVE VoteLoop(_, _, _, _)
VoteLoop(keys, words, canon, i) ==
    IF i > Len(keys) THEN canon
    ELSE VoteLoop(keys, words, VoteKeyStep(keys, words, canon, i), i + 1)

\* mutant of VotedWords: one output word per distinct input word
VotedWords_PerKey(words, canon) ==
    [i \in DOMAIN CounterKeys(words) |-> canon[CounterKeys(words)[i]]]

\* _majority_vote: return [canonical[w] for w in words]
VotedWords(words, canon) == [i \in DOMAIN words |-> canon[words[i]]]

(***************************************************************************)
(* Inputs of OCRNormalizer.normalize                                       *)
(***************************************************************************)
MaxLines == 3    \* lines of a text
MaxCalls == 2    \* normalize() calls in a row, each on the previous result

\* the lines texts are made of: three words that form a chain of
\* near-matches (Topl ~ Topla ~ Toplam, Topl and Toplam are not similar),
\* a line of two words, a line of three, short lines (two of them with a
\* carriage return between them), an empty line and a line that is short
\* only once "u" + U+0308 is composed
LinePool ==
    { <<"T", "o", "p", "l">>,
      <<" ", "T", "o", "p", "l", "a", " ">>,
      <<"T", "o", "p", "l", "a", "m">>,
      <<"T", "o", "p", "l", "a", "m", " ", " ", "T", "o", "p", "l", "a">>,
      <<"T", "o", "p", "l", " ", "T", "o", "p", "l", "a", "m", " ", "T", "o", "p", "l", "a", "m">>,
      <<"a", "\r", "b">>,
      <<" ", "Ü">>,
      <<>>,
      <<"a", "u", "combining-diaeresis">> }

RECURSIVE LineSeqs(_)
LineSeqs(n) ==
    IF n = 0 THEN {<<>>}
    ELSE LET shorter == LineSeqs(n - 1)
         IN  shorter \cup { Append(q, l) : q \in {s \in shorter : Len(s) = n - 1},
                                           l \in LinePool }

\* the texts handed to normalize: up to MaxLines lines joined by "\n", and
\* one line of three long words, "V W W": W is forty letters five times
\* over, V is W with every eighth character replaced by "0".  Both have
\* 200 characters, so each of their characters is popular; their blocks
\* of seven common characters are found one after the other by a matcher
\* that indexes every character, and only the first one by difflib
NormTexts ==
    LET letters == <<"a", "b", "c", "d", "e", "f", "g", "h", "i", "j",
                     "k", "l", "m", "n", "o", "p", "q", "r", "s", "t",
                     "u", "v", "w", "x", "y", "z", "A", "B", "C", "D",
                     "E", "F", "G", "H", "I", "J", "K", "L", "M", "N">>
        W == [i \in 1 .. 5 * Len(letters) |-> letters[((i - 1) % Len(letters)) + 1]]
        V == [i \in DOMAIN W |-> IF i % 8 = 0 THEN "0" ELSE W[i]]
    IN  { Join(q, <<"\n">>) : q \in LineSeqs(MaxLines) }
            \cup { V \o <<" ">> \o W \o <<" ">> \o W }

(***************************************************************************)
(* OCRNormalizer.normalize as a state machine                              *)
(***************************************************************************)
\* the table parser is not running
TableIdle ==
    /\ tokens = <<>>
    /\ page_width = 0
    /\ tpc = "idle"
    /\ rows = <<>>
    /\ row_index = 0
    /\ items = <<>>
    /\ cols = NoCols
    /\ texc = "none"
    /\ tcalls = 0

NInit ==
    /\ AnalyzerIdle
    /\ TableIdle
    /\ ntext \in NormTexts
    /\ npc = "start"
    /\ nlines = <<>>
    /\ nwords = <<>>
    /\ canonical = <<>>
    /\ nkey = 1
    /\ nvoted = <<>>
    /\ nresult = <<>>
    /\ ncalls = 0

\* normalize(): if not text: return text
ReturnEmpty ==
    /\ npc = "start"
    /\ ntext = <<>>
    /\ nresult' = ntext
    /\ npc' = "returned"
    /\ ncalls' = ncalls + 1
    /\ UNCHANGED <<ntext, nlines, nwords, canonical, nkey, nvoted>>
    /\ UNCHANGED avars
    /\ UNCHANGED tvars

\* normalize(): NFC, splitlines and _merge_broken_lines
MergeLines ==
    /\ npc = "start"
    /\ ntext # <<>>
    /\ nlines' = MergeBrokenLines(SplitLines(NFC(ntext)))
    /\ npc' = "merged"
    /\ UNCHANGED <<ntext, nwords, canonical, nkey, nvoted, nresult, ncalls>>
    /\ UNCHANGED avars
    /\ UNCHANGED tvars

\* normalize(): words = " ".join(lines).split()
SplitIntoWords ==
    /\ npc = "merged"
    /\ nwords' = SplitWords(Join(nlines, <<" ">>))
    /\ npc' = "words"
    /\ UNCHANGED <<ntext, nlines, canonical, nkey, nvoted, nresult, ncalls>>
    /\ UNCHANGED avars
    /\ UNCHANGED tvars

\* _majority_vote(): one pass of the loop "for w in counter"
VoteKey ==
    /\ npc = "words"
    /\ nkey <= Len(CounterKeys(nwords))
    /\ canonical' = VoteKeyStep(CounterKeys(nwords), nwords, canonical, nkey)
    /\ nkey' = nkey + 1
    /\ UNCHANGED <<ntext, npc, nlines, nwords, nvoted, nresult, ncalls>>
    /\ UNCHANGED avars
    /\ UNCHANGED tvars

\* normalize(): words = self._majority_vote(words), the loop being over
MajorityVote ==
    /\ npc = "words"
    /\ nkey > Len(CounterKeys(nwords))
    /\ nvoted' = VotedWords(nwords, canonical)
    /\ npc' = "voted"
    /\ UNCHANGED <<ntext, nlines, nwords, canonical, nkey, nresult, ncalls>>
    /\ UNCHANGED avars
    /\ UNCHANGED tvars

\* normalize(): return " ".join(words)
ReturnJoined ==
    /\ npc = "voted"
    /\ nresult' = Join(nvoted, <<" ">>)
    /\ npc' = "returned"
    /\ ncalls' = ncalls + 1
    /\ UNCHANGED <<ntext, nlines, nwords, canonical, nkey, nvoted>>
    /\ UNCHANGED avars
    /\ UNCHANGED tvars

\* the caller hands the returned text to normalize() again
NormalizeAgain ==
    /\ npc = "returned"
    /\ ncalls < MaxCalls
    /\ ntext' = nresult
    /\ npc' = "start"
    /\ nlines' = <<>>
    /\ nwords' = <<>>
    /\ canonical' = <<>>
    /\ nkey' = 1
    /\ nvoted' = <<>>
    /\ nresult' = <<>>
    /\ UNCHANGED ncalls
    /\ UNCHANGED avars
    /\ UNCHANGED tvars

NNext ==
    \/ ReturnEmpty
    \/ MergeLines
    \/ SplitIntoWords
    \/ VoteKey
    \/ MajorityVote
    \/ ReturnJoined
    \/ NormalizeAgain

SpecNorm == NInit /\ [][NNext]_vars

(***************************************************************************)
(* Properties of the normalizer                                            *)
(***************************************************************************)
\* C14: normalize applied to a text it returned gives that text back:
\* normalize(normalize(t)) = normalize(t) for every text t, chains of
\* near-matches with different counts included.
C14_NormalizeIdempotent ==
    (npc = "returned" /\ ncalls >= 2) => nresult = ntext

\* _majority_vote has returned in the current normalize() call
Voted == npc \in {"voted", "returned"} /\ ntext # <<>>

\* C16: the list _majority_vote returns has the length of the list it was
\* given, holds at each position the canonical form of the input word at
\* that position, and gives all occurrences of one input word the same
\* output word.
C16_VoteKeepsOrderAndCount ==
    Voted =>
        /\ Len(nvoted) = Len(nwords)
        /\ \A i \in DOMAIN nwords :
               /\ nwords[i] \in DOMAIN canonical
               /\ nvoted[i] = canonical[nwords[i]]
        /\ \A i, j \in DOMAIN nwords :
               nwords[i] = nwords[j] => nvoted[i] = nvoted[j]

\* C16 witness: a five-word list with a repeated word came back from the
\* vote with a word replaced, the two occurrences of the repeated word
\* alike
C16_Witness ==
    /\ Voted
    /\ Len(nwords) = 5
    /\ nvoted # nwords
    /\ \E i, j \in DOMAIN nwords :
           /\ i < j
           /\ nwords[i] = nwords[j]
           /\ nvoted[i] # nwords[i]
           /\ nvoted[j] = nvoted[i]

\* the position of token t in the token list handed to parse
InputIndex(t) == CHOOSE i \in DOMAIN tokens : tokens[i] = t

\* the tokens of a row stand in ascending center_y order, tokens of equal
\* center_y in the order of the input
InRowOrder(row) ==
    \A i, j \in DOMAIN row :
        i < j => \/ row[i].center_y < row[j].center_y
                 \/ /\ row[i].center_y = row[j].center_y
                    /\ InputIndex(row[i]) < InputIndex(row[j])

\* the stripped texts, in row order, of the tokens of a row that have text
\* and belong to column name
FragmentsInRowOrder(row, name) ==
    LET member(t) == StripChars(t.text) # <<>> /\ Column(t.center_x, page_width) = name
        picked    == SelectSeq(row, member)
    IN  [i \in DOMAIN picked |-> StripChars(picked[i].text)]

\* C21: when parse ends, every row holds its tokens in ascending center_y
\* order with ties in input order; each bucket of a bucketed row holds its
\* fragments in that row order whatever their horizontal positions, and the
\* description of
\* the item read from the row is the description fragments joined in that
\* order by single spaces (with "Örün" and "0rün" rewritten to "Ürün").
C21_FragmentsInRowOrder ==
    /\ tpc \in {"returned", "raised"} => \A r \in DOMAIN rows : InRowOrder(rows[r])
    /\ (/\ tpc \in {"rows", "returned"}
        /\ row_index >= 1
        /\ page_width > 0
        /\ ~MentionsHeaderKeyword(LastRow))
           => /\ \A name \in {"desc", "qty", "unit", "total"} :
                     cols[name] = FragmentsInRowOrder(LastRow, name)
              /\ RowIsValid(LastRow)
                     => items[Len(items)].description
                            = ReplaceAll(ReplaceAll(Join(cols.desc, <<" ">>),
                                                    <<"Ö", "r", "ü", "n">>, <<"Ü", "r", "ü", "n">>),
                                         <<"0", "r", "ü", "n">>, <<"Ü", "r", "ü", "n">>)

\* C21 witness: parse returned the item "Pro Widget" for a row in which
\* "Pro" stands right of "Widget" and has the smaller vertical center
C21_Witness ==
    /\ tpc = "returned"
    /\ Len(items) = 1
    /\ items[1].description = <<"P", "r", "o", " ", "W", "i", "d", "g", "e", "t">>
    /\ \E i, j \in DOMAIN rows[1] :
           /\ rows[1][i].text = <<"P", "r", "o">>
           /\ rows[1][j].text = <<"W", "i", "d", "g", "e", "t">>
           /\ rows[1][i].center_x > rows[1][j].center_x
           /\ rows[1][i].center_y < rows[1][j].center_y

\* the number the claim reads from the fragments of a bucket: the leftmost
\* run of digits of the space-joined fragments with, when a "." or ","
\* and a digit follow, the digits after it as decimal part ("," standing
\* for "."); default when there is no digit; for an integer read a number
\* with a decimal part is a failed read and gives default
NumberRead(parts, default, integer) ==
    LET s       == Join(parts, <<" ">>)
        digits  == {i \in DOMAIN s : s[i] \in DigitChars}
        b       == CHOOSE i \in digits : \A j \in digits : i <= j
        RunFrom(i) == CHOOSE k \in i .. Len(s) :
                          /\ \A j \in i .. k : j \in digits
                          /\ (k + 1) \notin digits
        e       == RunFrom(b)
        decimal == /\ e + 2 \in digits
                   /\ s[e + 1] \in {".", ","}
        f       == RunFrom(e + 2)
    IN  IF digits = {} THEN default
        ELSE IF ~decimal THEN Frac(ParseNat(SubSeq(s, b, e)), 1)
        ELSE IF integer THEN default
        ELSE Frac(ParseNat(SubSeq(s, b, e) \o SubSeq(s, e + 2, f)), Pow10(f - e - 1))

\* two fractions stand for the same number
SameNumber(x, y) == x.num * y.den = y.num * x.den

\* C22: when _parse_row has bucketed a row whose description, unit-price and
\* total buckets are filled, quantity, unit price and total are the first
\* number of their bucket (digits with an optional "." or "," decimal
\* part, "," read as "."), or the default 1, 0.0 and 0.0 when the bucket has
\* no number; the row adds an item carrying these numbers unless one of
\* them is <= 0, and then adds nothing.
C22_FirstNumberOrDefault ==
    [][ (/\ row_index' = row_index + 1
         /\ cols'.desc # <<>> /\ cols'.unit # <<>> /\ cols'.total # <<>>)
        => LET q == NumberRead(cols'.qty, Frac(1, 1), TRUE)
               u == NumberRead(cols'.unit, Frac(0, 1), FALSE)
               t == NumberRead(cols'.total, Frac(0, 1), FALSE)
           IN  IF q.num > 0 /\ u.num > 0 /\ t.num > 0
                   THEN /\ Len(items') = Len(items) + 1
                        /\ SubSeq(items', 1, Len(items)) = items
                        /\ items'[Len(items')].quantity = q.num
                        /\ SameNumber(items'[Len(items')].unit_price, u)
                        /\ SameNumber(items'[Len(items')].total_price, t)
                   ELSE items' = items ]_vars

\* C22 witness: parse returned an item with the default quantity 1 (empty
\* quantity bucket) and the unit price 0.13 read from "0,13"
C22_Witness ==
    /\ tpc = "returned"
    /\ row_index = 1
    /\ cols.qty = <<>>
    /\ cols.unit = << <<"0", ",", "1", "3">> >>
    /\ Len(items) = 1
    /\ items[1].quantity = 1
    /\ SameNumber(items[1].unit_price, Frac(13, 100))

\* the first number of the space-joined fragments has a decimal part: its
\* leftmost run of digits is followed by "." or "," and a digit
FirstNumberHasDecimal(parts) ==
    LET s == Join(parts, <<" ">>)
        IsDig(i) == i \in DOMAIN s /\ s[i] \in DigitChars
    IN  \E b \in DOMAIN s, e \in DOMAIN s :
            /\ b <= e
            /\ \A j \in 1 .. (b - 1) : ~IsDig(j)
            /\ \A j \in b .. e : IsDig(j)
            /\ e + 1 \in DOMAIN s /\ s[e + 1] \in {".", ","}
            /\ IsDig(e + 2)

\* C30: when the quantity bucket of a bucketed row starts its first number
\* with a decimal part ("2,5") and unit price and total are positive, the
\* row is emitted with quantity 1 (the default, neither 2 nor 3) and with
\* confidence 0.95 exactly when |1 * unit_price - total_price| < 1.
C30_DecimalQuantityIsDefault ==
    (/\ tpc \in {"rows", "returned"}
     /\ row_index >= 1
     /\ page_width > 0
     /\ ~MentionsHeaderKeyword(LastRow)
     /\ cols.desc # <<>> /\ cols.unit # <<>> /\ cols.total # <<>>
     /\ FirstNumberHasDecimal(cols.qty)
     /\ NumberRead(cols.unit, Frac(0, 1), FALSE).num > 0
     /\ NumberRead(cols.total, Frac(0, 1), FALSE).num > 0)
        => LET u  == NumberRead(cols.unit, Frac(0, 1), FALSE)
               t  == NumberRead(cols.total, Frac(0, 1), FALSE)
               it == items[Len(items)]
           IN  /\ items # <<>>
               /\ it.quantity = 1
               /\ SameNumber(it.unit_price, u)
               /\ SameNumber(it.total_price, t)
               /\ it.confidence = IF GapBelowOne([quantity |-> 1, unit_price |-> u,
                                                  total_price |-> t])
                                     THEN 95 ELSE 85

\* C30 witness: the row Widget / "2,5" / 10.00 / 30.00 was emitted with
\* quantity 1 and confidence 0.85 (|1 * 10.00 - 30.00| = 20; a quantity of 3
\* would have given 0.95)
C30_Witness ==
    /\ tpc = "returned"
    /\ row_index = 1
    /\ cols.qty = << <<"2", ",", "5">> >>
    /\ Len(items) = 1
    /\ items[1].quantity = 1
    /\ SameNumber(items[1].unit_price, Frac(10, 1))
    /\ SameNumber(items[1].total_price, Frac(30, 1))
    /\ items[1].confidence = 85

\* the items parse collects for a token list and a page width, as a
\* function of these two alone (rows that raise are left out: parse does
\* not return then)
RECURSIVE ItemsOfRows(_, _)
ItemsOfRows(rs, w) ==
    IF rs = <<>> THEN <<>>
    ELSE LET it == ParseRow(Head(rs), w)
         IN  (IF it.kind = "item" THEN <<it>> ELSE <<>>) \o ItemsOfRows(Tail(rs), w)

ItemsOf(toks, w) == ItemsOfRows(GroupRows(toks), w)

\* C27: while a parse() call runs, the caller's token list (same tokens,
\* same order, same fields) and page width stay as they were handed in, and
\* whenever a call returns, on a fresh parser or after earlier calls on the
\* same parser, its items are those that its own tokens and page width
\* alone determine.
C27_InputKeptNoCarryOver ==
    [][ /\ tpc # "returned" => (tokens' = tokens /\ page_width' = page_width)
        /\ tpc' = "returned" => items' = ItemsOf(tokens', page_width') ]_vars

\* C27 witness: a second call on the same parser returned exactly the one
\* item of the "Widget" row, with the token list as handed in
C27_Witness ==
    /\ tcalls = 2
    /\ tpc = "returned"
    /\ tokens = SubSeq(TokenPool, 1, 4)
    /\ page_width = 100
    /\ Len(items) = 1
    /\ items[1].description = <<"W", "i", "d", "g", "e", "t">>

\* the number of times token t stands in some row
TimesInRows(t) ==
    SeqSum([r \in DOMAIN rows |-> Cardinality({k \in DOMAIN rows[r] : rows[r][k] = t})])

\* C29: after row grouping every input token is in exactly one row and the
\* rows hold nothing else, rows stand in ascending order of their first
\* token's center_y, the first tokens of consecutive rows are at least 12
\* apart, any two tokens of one row are less than 12 apart, and two tokens
\* exactly 12 apart are never in the same row.
C29_RowsPartitionInput ==
    tpc \in {"rows", "returned", "raised"} =>
        /\ \A i \in DOMAIN tokens : TimesInRows(tokens[i]) = 1
        /\ SeqSum([r \in DOMAIN rows |-> Len(rows[r])]) = Len(tokens)
        /\ \A r \in DOMAIN rows :
               /\ rows[r] # <<>>
               /\ r > 1 => rows[r][1].center_y - rows[r - 1][1].center_y >= 12
               /\ \A i, j \in DOMAIN rows[r] :
                      /\ rows[r][i].center_y - rows[r][j].center_y < 12
                      /\ rows[r][i].center_y - rows[r][j].center_y # 12

\* C29 witness: two tokens exactly 12 apart (center_y 10 and 22) were
\* grouped into two consecutive rows, each the first token of its row
C29_Witness ==
    /\ tpc = "returned"
    /\ \E r \in DOMAIN rows :
           /\ r > 1
           /\ rows[r - 1][1].center_y = 10
           /\ rows[r][1].center_y = 22

\* the summed area of the rectangles of the images in imgs
RectAreaSum(imgs) ==
    SeqSum([i \in DOMAIN imgs |->
               SeqSum([k \in DOMAIN imgs[i].rects |-> imgs[i].rects[k].w * imgs[i].rects[k].h])])

\* coverage c is the area sum over the page area, capped at 1.0
IsCappedQuotient(c, area_sum, page_area) ==
    IF area_sum >= page_area THEN c.num = c.den
    ELSE c.num * page_area = area_sum * c.den

\* C26 (as claimed): image coverage is 0.0 for a page with no images; it is
\* the fallback 0.5 when the page has an image and either its area is zero
\* or the rectangles of one of its images cannot be obtained; otherwise it
\* is the summed image rectangle area over the page area, capped at 1.0;
\* it lies in [0,1] and no exception leaves the analysis of a page.
C26_FailureGivesFallback ==
    /\ page_analyses # <<>> => exc = "none"
    /\ \A i \in DOMAIN page_analyses :
           LET page == pdf.pages[i]
               c    == page_analyses[i].image_coverage
               fail == \/ page.rect.w * page.rect.h = 0
                       \/ \E k \in DOMAIN page.images : page.images[k].raises
           IN  /\ c.den > 0 /\ 0 <= c.num /\ c.num <= c.den
               /\ IF page.images = <<>> THEN c.num = 0
                  ELSE IF fail THEN 2 * c.num = c.den
                  ELSE IsCappedQuotient(c, RectAreaSum(page.images), page.rect.w * page.rect.h)

\* C26 (amended): image coverage is 0.0 for a page with no images; it is
\* the fallback 0.5 when the page has an image and its area is zero;
\* otherwise it is the summed rectangle area of the images whose rectangles
\* can be obtained (an image whose rectangles cannot be obtained adds
\* nothing) over the page area, capped at 1.0; it lies in [0,1] and no
\* exception leaves the analysis of a page.
C26_FailedImageAddsNothing ==
    /\ page_analyses # <<>> => exc = "none"
    /\ \A i \in DOMAIN page_analyses :
           LET page == pdf.pages[i]
               c    == page_analyses[i].image_coverage
               good == SelectSeq(page.images, LAMBDA img : ~img.raises)
           IN  /\ c.den > 0 /\ 0 <= c.num /\ c.num <= c.den
               /\ IF page.images = <<>> THEN c.num = 0
                  ELSE IF page.rect.w * page.rect.h = 0 THEN 2 * c.num = c.den
                  ELSE IsCappedQuotient(c, RectAreaSum(good), page.rect.w * page.rect.h)

\* C26 witness: a page with one image whose rectangles cannot be obtained
\* and one image of area 100 on a page of area 14000 was analysed: the
\* coverage is 100 / 14000
C26_Witness ==
    \E i \in DOMAIN page_analyses :
        /\ Len(pdf.pages[i].images) = 2
        /\ pdf.pages[i].images[1].raises
        /\ ~pdf.pages[i].images[2].raises
        /\ page_analyses[i].image_coverage.num * 14000
               = 100 * page_analyses[i].image_coverage.den

\* C28: for every document with at least one page, the confidence is 0.0
\* exactly when pdf_type is broken, and the chosen pdf_type is the type of
\* at least one analysed page.
C28_TypeHasAPage ==
    /\ (TypeDetermined /\ NPages >= 1) => PagesOfType(pdf_type) # {}
    /\ (ConfidenceComputed /\ NPages >= 1)
           => ((confidence.num = 0) <=> (pdf_type = "broken"))

\* C28 witness: a document of one text, one image and one broken page fell
\* through to the mixed case, was labelled image and got confidence 1/3
C28_Witness ==
    /\ ConfidenceComputed
    /\ NText = 1 /\ NImage = 1 /\ NBroken = 1
    /\ pdf_type = "image"
    /\ 3 * confidence.num = confidence.den

(***************************************************************************)
(* Properties of the line merge                                            *)
(***************************************************************************)
\* the lines normalize() hands to _merge_broken_lines, each trimmed
TrimmedLines ==
    LET lines == SplitLines(NFC(ntext))
    IN  [i \in DOMAIN lines |-> StripChars(lines[i])]

\* the line merge of the current call has run
Merged == npc \in {"merged", "words", "voted", "returned"} /\ ntext # <<>>

\* lines a+1 .. b-1 of ls run together with nothing between them
RECURSIVE RunTogether(_, _, _)
RunTogether(ls, a, b) ==
    IF a + 1 >= b THEN <<>> ELSE ls[a + 1] \o RunTogether(ls, a + 1, b)

\* C25: the merged lines are, in order, one line for every input line of
\* trimmed length > 2, and a final line for a non-empty buffer left after
\* the last input line; the buffer is the concatenation of the lines of
\* trimmed length <= 2 since the last emitted line; a long line is emitted
\* trimmed when the buffer is empty and as buffer + " " + line otherwise.
C25_ShortLinesBuffered ==
    Merged =>
        LET ls      == TrimmedLines
            long    == {i \in DOMAIN ls : Len(ls[i]) > 2}
            before(i) == IF \E j \in long : j < i
                             THEN CHOOSE j \in long :
                                      j < i /\ \A k \in long : k < i => k <= j
                         ELSE 0
            rank(i) == Cardinality({j \in long : j <= i})
            last    == IF long = {} THEN 0
                       ELSE CHOOSE j \in long : \A k \in long : k <= j
            rest    == RunTogether(ls, last, Len(ls) + 1)
        IN  /\ Len(nlines) = Cardinality(long) + (IF rest # <<>> THEN 1 ELSE 0)
            /\ \A i \in long :
                   LET buffer == RunTogether(ls, before(i), i)
                   IN  nlines[rank(i)] =
                           IF buffer = <<>> THEN ls[i]
                           ELSE buffer \o <<" ">> \o ls[i]
            /\ rest # <<>> => nlines[Len(nlines)] = rest

\* C25 witness: in the text " U-diaeresis" / "a" / "b" / " Topla " (a
\* carriage return between "a" and "b", line feeds elsewhere) the three short
\* lines were buffered and the long one emitted as the single line
\* "U-diaeresis" + "a" + "b" + " " + "Topla"
C25_Witness ==
    /\ Merged
    /\ SplitLines(ntext) = << <<" ", "Ü">>, <<"a">>, <<"b">>, <<" ", "T", "o", "p", "l", "a", " ">> >>
    /\ nlines = << <<"Ü", "a", "b", " ", "T", "o", "p", "l", "a">> >>

(***************************************************************************)
(* Properties of the majority vote loop                                    *)
(***************************************************************************)
\* the distinct words with similarity > 0.85 to w, w itself included
ClusterOf(w) ==
    LET keys == CounterKeys(nwords)
    IN  {keys[j] : j \in {k \in DOMAIN keys : Similar(w, keys[k])}}

\* every member of the cluster of w has, in the dict canon, one and the
\* same member of highest count as canonical form
MapsToHighestCount(w, canon) ==
    \E top \in ClusterOf(w) :
        /\ \A g \in ClusterOf(w) : CountOf(nwords, top) >= CountOf(nwords, g)
        /\ \A g \in ClusterOf(w) : g \in DOMAIN canon /\ canon[g] = top

\* the canonical dict as the loop finds it when it reaches key index i
RECURSIVE CanonBefore(_)
CanonBefore(i) ==
    IF i = 1 THEN <<>>
    ELSE VoteKeyStep(CounterKeys(nwords), nwords, CanonBefore(i - 1), i - 1)

\* the words the loop processed: those without a canonical form when the
\* loop reached them
Processed ==
    LET keys == CounterKeys(nwords)
    IN  {keys[i] : i \in {k \in DOMAIN keys : keys[k] \notin DOMAIN CanonBefore(k)}}

\* C23: the vote takes the distinct words in first-seen order; a pass of
\* the loop leaves every canonical form assigned before it as it is, and
\* when the loop is over every member of the cluster of each processed word
\* maps to that cluster's member of highest count.
C23_AssignmentsFinal ==
    [][ /\ (npc = "words" /\ npc' = "words") =>
               /\ nkey' = nkey + 1
               /\ \A g \in DOMAIN canonical :
                      g \in DOMAIN canonical' /\ canonical'[g] = canonical[g]
        /\ (npc = "words" /\ npc' = "voted") =>
               \A w \in Processed : MapsToHighestCount(w, canonical) ]_vars

\* C24: the vote replaces a word only by itself or by a word whose
\* similarity with it exceeds 0.85, also when both are similar to a common
\* third word.
C24_ReplacedBySimilarOnly ==
    Voted =>
        \A i \in DOMAIN nwords :
            \/ nvoted[i] = nwords[i]
            \/ Similar(nwords[i], nvoted[i])
            \/ Similar(nvoted[i], nwords[i])

====
